---------------------------- MODULE Spec2Model ----------------------------
(***************************************************************************)
(* distkv: the typed storage engine (src/src/storage.cpp) driven through   *)
(* the command dispatcher (src/src/server.cpp, Server::execute_command)    *)
(* by one connection, under a wall clock that advances in whole seconds.   *)
(***************************************************************************)
EXTENDS Integers, Sequences, FiniteSets, TLC

(***************************************************************************)
(* Bounds of the model.                                                    *)
(***************************************************************************)
\* the clock std::time(nullptr) runs over T0 .. MaxTime
MaxTime == 2
\* LPUSH / RPUSH are issued only while the list is shorter than MaxLen
MaxLen == 1

\* first clock value of a run (seconds since the epoch, scaled down)
T0 == 1

Keys == {"k1", "k2"}
Vals == {"a", "b"}
\* the tokens a client sends as the <seconds> argument of EXPIRE
SecTokens == {"-2", "0", "1"}
\* the tokens a client sends as <start> / <stop> of LRANGE
IdxTokens == {"-1", "0", "1"}
\* the integers std::stoi can yield on the tokens above
IntRange == -9 .. 9

\* iteration orders of the unordered containers
RECURSIVE Perms(_)
Perms(S) ==
    IF S = {} THEN {<<>>}
    ELSE UNION {{<<x>> \o p : p \in Perms(S \ {x})} : x \in S}

KeyOrders == Perms(Keys)
ValOrders == Perms(Vals)

\* the elements of S in the iteration order ord
InOrder(S, ord) == SelectSeq(ord, LAMBDA x : x \in S)

(***************************************************************************)
(* Value (include/storage.h).  The erased payload pointer is one of three  *)
(* typed fields, selected by the tag.                                      *)
(***************************************************************************)
ValueType == {"STRING", "LIST", "SET"}

\* faulty variant: the constructor zero-initialises the expiration instant
Value_zero_expiry(t) ==
    [type |-> t, str |-> "", list |-> <<>>, set |-> {}, expires_at |-> 0]

\* Value::Value(ValueType t) : type(t), expires_at(-1), with the empty
\* payload get_or_create / set attach to it
Value(t) ==
    [type |-> t, str |-> "", list |-> <<>>, set |-> {}, expires_at |-> -1]

\* data_.find(key) == data_.end()
Absent ==
    [type |-> "ABSENT", str |-> "", list |-> <<>>, set |-> {}, expires_at |-> -1]

\* faulty variant: the entry outlives its expiration instant by one second
is_expired_late(val, t) ==
    IF val.expires_at = -1 THEN FALSE ELSE t > val.expires_at + 1

is_expired(val, t) ==
    IF val.expires_at = -1 THEN FALSE ELSE t > val.expires_at

\* std::optional<T>
nullopt == [has |-> FALSE, past_end |-> FALSE]
Some(x) == [has |-> TRUE, val |-> x, past_end |-> FALSE]

(***************************************************************************)
(* Storage (src/storage.cpp).  Every operation takes the map d and, where  *)
(* the code reads std::time(nullptr), the clock t, and yields the map it   *)
(* leaves behind together with its return value.                           *)
(***************************************************************************)
\* faulty variant: the entry is erased without the second is_expired check
cleanup_expired_no_recheck(d, t, key) ==
    IF d[key] # Absent
    THEN [d EXCEPT ![key] = Absent]
    ELSE d

cleanup_expired(d, t, key) ==
    IF d[key] # Absent /\ is_expired(d[key], t)
    THEN [d EXCEPT ![key] = Absent]
    ELSE d

\* faulty variant: an entry of another variant is replaced instead of refused
get_or_create_replaces(d, key, type) ==
    IF d[key] = Absent \/ d[key].type # type
    THEN [d |-> [d EXCEPT ![key] = Value(type)], ok |-> TRUE]
    ELSE [d |-> d, ok |-> TRUE]

\* faulty variant: the new entry is always a list, whatever variant was asked for
get_or_create_list_only(d, key, type) ==
    IF d[key] = Absent
    THEN [d |-> [d EXCEPT ![key] = Value("LIST")], ok |-> TRUE]
    ELSE IF d[key].type # type
         THEN [d |-> d, ok |-> FALSE]
         ELSE [d |-> d, ok |-> TRUE]

get_or_create(d, key, type) ==
    IF d[key] = Absent
    THEN [d |-> [d EXCEPT ![key] = Value(type)], ok |-> TRUE]
    ELSE IF d[key].type # type
         THEN [d |-> d, ok |-> FALSE]
         ELSE [d |-> d, ok |-> TRUE]

\* faulty variant: the payload is replaced in place, the old expiry stays
set_keeps_expiry(d, key, value) ==
    [d |-> [d EXCEPT ![key] =
                [Value("STRING") EXCEPT !.str = value,
                                        !.expires_at = d[key].expires_at]],
     ret |-> TRUE]

set(d, key, value) ==
    [d |-> [d EXCEPT ![key] = [Value("STRING") EXCEPT !.str = value]],
     ret |-> TRUE]

get(d, t, key) ==
    IF d[key] = Absent THEN [d |-> d, ret |-> nullopt]
    ELSE IF is_expired(d[key], t)
         THEN [d |-> cleanup_expired(d, t, key), ret |-> nullopt]
    ELSE IF d[key].type # "STRING" THEN [d |-> d, ret |-> nullopt]
    ELSE [d |-> d, ret |-> Some(d[key].str)]

\* faulty variant: the result of erase is dropped, del reports success
del_always_true(d, key) ==
    [d |-> [d EXCEPT ![key] = Absent], ret |-> TRUE]

del(d, key) ==
    [d |-> [d EXCEPT ![key] = Absent], ret |-> d[key] # Absent]

exists(d, t, key) ==
    IF d[key] = Absent THEN [d |-> d, ret |-> FALSE]
    ELSE IF is_expired(d[key], t)
         THEN [d |-> cleanup_expired(d, t, key), ret |-> FALSE]
    ELSE [d |-> d, ret |-> TRUE]

\* faulty variant: an expiry that is already set is not overwritten
expire_keeps_earlier(d, t, key, seconds) ==
    IF d[key] = Absent THEN [d |-> d, ret |-> FALSE]
    ELSE IF d[key].expires_at # -1 THEN [d |-> d, ret |-> TRUE]
    ELSE [d |-> [d EXCEPT ![key].expires_at = t + seconds], ret |-> TRUE]

expire(d, t, key, seconds) ==
    IF d[key] = Absent THEN [d |-> d, ret |-> FALSE]
    ELSE [d |-> [d EXCEPT ![key].expires_at = t + seconds], ret |-> TRUE]

ttl(d, t, key) ==
    IF d[key] = Absent THEN -2
    ELSE IF is_expired(d[key], t) THEN -2
    ELSE IF d[key].expires_at = -1 THEN -1
    ELSE LET remaining == d[key].expires_at - t
         IN  IF remaining > 0 THEN remaining ELSE -2

lpush(d, key, value) ==
    LET g == get_or_create(d, key, "LIST")
    IN  IF ~g.ok \/ g.d[key].type # "LIST" THEN [d |-> g.d, ret |-> FALSE]
        ELSE [d |-> [g.d EXCEPT ![key].list = <<value>> \o @], ret |-> TRUE]

\* faulty variant: rpush inserts at begin() as lpush does
rpush_prepends(d, key, value) ==
    LET g == get_or_create(d, key, "LIST")
    IN  IF ~g.ok \/ g.d[key].type # "LIST" THEN [d |-> g.d, ret |-> FALSE]
        ELSE [d |-> [g.d EXCEPT ![key].list = <<value>> \o @], ret |-> TRUE]

rpush(d, key, value) ==
    LET g == get_or_create(d, key, "LIST")
    IN  IF ~g.ok \/ g.d[key].type # "LIST" THEN [d |-> g.d, ret |-> FALSE]
        ELSE [d |-> [g.d EXCEPT ![key].list = Append(@, value)], ret |-> TRUE]

\* faulty variant: the list is looked up with get_or_create, as the pushes do
lpop_creates(d, key) ==
    IF d[key] = Absent
    THEN [d |-> [d EXCEPT ![key] = Value("LIST")], ret |-> nullopt]
    ELSE IF d[key].type # "LIST" THEN [d |-> d, ret |-> nullopt]
    ELSE IF d[key].list = <<>> THEN [d |-> d, ret |-> nullopt]
    ELSE [d |-> [d EXCEPT ![key].list = Tail(@)],
          ret |-> Some(Head(d[key].list))]

lpop(d, key) ==
    IF d[key] = Absent \/ d[key].type # "LIST" THEN [d |-> d, ret |-> nullopt]
    ELSE IF d[key].list = <<>> THEN [d |-> d, ret |-> nullopt]
    ELSE [d |-> [d EXCEPT ![key].list = Tail(@)],
          ret |-> Some(Head(d[key].list))]

rpop(d, key) ==
    IF d[key] = Absent \/ d[key].type # "LIST" THEN [d |-> d, ret |-> nullopt]
    ELSE IF d[key].list = <<>> THEN [d |-> d, ret |-> nullopt]
    ELSE LET l == d[key].list
         IN  [d |-> [d EXCEPT ![key].list = SubSeq(l, 1, Len(l) - 1)],
              ret |-> Some(l[Len(l)])]

Max(a, b) == IF a > b THEN a ELSE b
Min(a, b) == IF a < b THEN a ELSE b

\* faulty variant: the slice ends before stop, [begin + start, begin + stop)
lrange_exclusive_stop(d, key, start, stop) ==
    IF d[key] = Absent \/ d[key].type # "LIST" THEN nullopt
    ELSE LET l     == d[key].list
             size  == Len(l)
             start1 == IF start < 0 THEN start + size ELSE start
             stop1  == IF stop < 0 THEN stop + size ELSE stop
             start2 == Max(0, Min(start1, size - 1))
             stop2  == Max(0, Min(stop1, size - 1))
         IN  IF start2 > stop2 THEN Some(<<>>)
             ELSE IF stop2 + 1 > size THEN [has |-> TRUE, val |-> <<>>, past_end |-> TRUE]
             ELSE Some(SubSeq(l, start2 + 1, stop2))

\* faulty variant: a missing key is answered with an empty vector
lrange_missing_is_empty(d, key, start, stop) ==
    IF d[key] = Absent THEN Some(<<>>)
    ELSE IF d[key].type # "LIST" THEN nullopt
    ELSE LET l     == d[key].list
             size  == Len(l)
             start1 == IF start < 0 THEN start + size ELSE start
             stop1  == IF stop < 0 THEN stop + size ELSE stop
             start2 == Max(0, Min(start1, size - 1))
             stop2  == Max(0, Min(stop1, size - 1))
         IN  IF start2 > stop2 THEN Some(<<>>)
             ELSE IF stop2 + 1 > size THEN [has |-> TRUE, val |-> <<>>, past_end |-> TRUE]
             ELSE Some(SubSeq(l, start2 + 1, stop2 + 1))

lrange(d, key, start, stop) ==
    IF d[key] = Absent \/ d[key].type # "LIST" THEN nullopt
    ELSE LET l     == d[key].list
             size  == Len(l)
             start1 == IF start < 0 THEN start + size ELSE start
             stop1  == IF stop < 0 THEN stop + size ELSE stop
             start2 == Max(0, Min(start1, size - 1))
             stop2  == Max(0, Min(stop1, size - 1))
         IN  IF start2 > stop2 THEN Some(<<>>)
             \* [begin + start, begin + stop + 1); on an empty vector the
             \* range is [begin, begin + 1), past the end
             ELSE IF stop2 + 1 > size THEN [has |-> TRUE, val |-> <<>>, past_end |-> TRUE]
             ELSE Some(SubSeq(l, start2 + 1, stop2 + 1))

llen(d, key) ==
    IF d[key] = Absent \/ d[key].type # "LIST" THEN 0 ELSE Len(d[key].list)

\* faulty variant: the result of insert is dropped, sadd reports success
sadd_always_true(d, key, member) ==
    LET g == get_or_create(d, key, "SET")
    IN  IF ~g.ok \/ g.d[key].type # "SET" THEN [d |-> g.d, ret |-> FALSE]
        ELSE [d |-> [g.d EXCEPT ![key].set = @ \cup {member}], ret |-> TRUE]

sadd(d, key, member) ==
    LET g == get_or_create(d, key, "SET")
    IN  IF ~g.ok \/ g.d[key].type # "SET" THEN [d |-> g.d, ret |-> FALSE]
        ELSE [d |-> [g.d EXCEPT ![key].set = @ \cup {member}],
              ret |-> member \notin g.d[key].set]

\* faulty variant: a set that becomes empty is erased from the map
srem_erases_empty(d, key, member) ==
    IF d[key] = Absent \/ d[key].type # "SET" THEN [d |-> d, ret |-> FALSE]
    ELSE IF d[key].set = {member}
    THEN [d |-> [d EXCEPT ![key] = Absent], ret |-> TRUE]
    ELSE [d |-> [d EXCEPT ![key].set = @ \ {member}],
          ret |-> member \in d[key].set]

srem(d, key, member) ==
    IF d[key] = Absent \/ d[key].type # "SET" THEN [d |-> d, ret |-> FALSE]
    ELSE [d |-> [d EXCEPT ![key].set = @ \ {member}],
          ret |-> member \in d[key].set]

sismember(d, key, member) ==
    IF d[key] = Absent \/ d[key].type # "SET" THEN FALSE
    ELSE member \in d[key].set

smembers(d, key) ==
    IF d[key] = Absent \/ d[key].type # "SET" THEN nullopt
    ELSE Some(d[key].set)

scard(d, key) ==
    IF d[key] = Absent \/ d[key].type # "SET" THEN 0
    ELSE Cardinality(d[key].set)

dbsize(d) == Cardinality({k \in DOMAIN d : d[k] # Absent})

\* the keys in the iteration order ord of data_
keys(d, t, ord) ==
    SelectSeq(ord, LAMBDA k : d[k] # Absent /\ ~is_expired(d[k], t))

(***************************************************************************)
(* Protocol (include/protocol.h) and the dispatcher (src/server.cpp).      *)
(***************************************************************************)
Request(cmd, a) == [command |-> cmd, args |-> a]

\* Response(StatusCode s), Response(s, const std::string&),
\* Response(s, const std::vector<std::string>&)
Response(s) == [status |-> s, data |-> <<>>]
Response1(s, str) == [status |-> s, data |-> <<str>>]
ResponseV(s, vec) == [status |-> s, data |-> vec]

\* std::to_string on an int
to_string(n) == ToString(n)

\* std::stoi on a whole token: the integer it denotes, or an exception
stoi(tok) ==
    IF \E n \in IntRange : ToString(n) = tok
    THEN [ok |-> TRUE, val |-> CHOOSE n \in IntRange : ToString(n) = tok]
    ELSE [ok |-> FALSE, val |-> 0]

Bool01(b) == IF b THEN "1" ELSE "0"

\* Server::execute_command.  kord and vord are the iteration orders the
\* unordered map and set happen to have; junk is what a read past the end of
\* a vector yields.
execute_command(d, t, req, kord, vord, junk) ==
    LET n == Len(req.args)
        a == req.args
        bad == [d |-> d, resp |-> Response("INVALID_ARGS")]
    IN
    CASE req.command = "PING" -> [d |-> d, resp |-> Response1("OK", "PONG")]
      [] req.command = "SET" ->
            IF n # 2 THEN bad
            ELSE [d |-> set(d, a[1], a[2]).d, resp |-> Response("OK")]
      [] req.command = "GET" ->
            IF n # 1 THEN bad
            ELSE LET r == get(d, t, a[1])
                 IN  [d |-> r.d,
                      resp |-> IF r.ret.has THEN Response1("OK", r.ret.val)
                               ELSE Response("NOT_FOUND")]
      [] req.command = "DEL" ->
            IF n # 1 THEN bad
            ELSE LET r == del(d, a[1])
                 IN  [d |-> r.d, resp |-> Response1("OK", Bool01(r.ret))]
      [] req.command = "EXISTS" ->
            IF n # 1 THEN bad
            ELSE LET r == exists(d, t, a[1])
                 IN  [d |-> r.d, resp |-> Response1("OK", Bool01(r.ret))]
      [] req.command = "EXPIRE" ->
            IF n # 2 THEN bad
            ELSE LET seconds == stoi(a[2])
                 IN  IF ~seconds.ok
                     THEN [d |-> d, resp |-> Response1("ERROR", "invalid timeout value")]
                     ELSE LET r == expire(d, t, a[1], seconds.val)
                          IN  [d |-> r.d, resp |-> Response1("OK", Bool01(r.ret))]
      [] req.command = "TTL" ->
            IF n # 1 THEN bad
            ELSE [d |-> d, resp |-> Response1("OK", to_string(ttl(d, t, a[1])))]
      [] req.command = "KEYS" ->
            [d |-> d, resp |-> ResponseV("OK", keys(d, t, kord))]
      [] req.command = "DBSIZE" ->
            [d |-> d, resp |-> Response1("OK", to_string(dbsize(d)))]
      [] req.command = "LPUSH" ->
            IF n # 2 THEN bad
            ELSE LET r == lpush(d, a[1], a[2])
                 IN  IF ~r.ret THEN [d |-> r.d, resp |-> Response("WRONG_TYPE")]
                     ELSE [d |-> r.d,
                           resp |-> Response1("OK", to_string(llen(r.d, a[1])))]
      [] req.command = "RPUSH" ->
            IF n # 2 THEN bad
            ELSE LET r == rpush(d, a[1], a[2])
                 IN  IF ~r.ret THEN [d |-> r.d, resp |-> Response("WRONG_TYPE")]
                     ELSE [d |-> r.d,
                           resp |-> Response1("OK", to_string(llen(r.d, a[1])))]
      [] req.command = "LPOP" ->
            IF n # 1 THEN bad
            ELSE LET r == lpop(d, a[1])
                 IN  [d |-> r.d,
                      resp |-> IF r.ret.has THEN Response1("OK", r.ret.val)
                               ELSE Response("NOT_FOUND")]
      [] req.command = "RPOP" ->
            IF n # 1 THEN bad
            ELSE LET r == rpop(d, a[1])
                 IN  [d |-> r.d,
                      resp |-> IF r.ret.has THEN Response1("OK", r.ret.val)
                               ELSE Response("NOT_FOUND")]
      [] req.command = "LRANGE" ->
            IF n # 3 THEN bad
            ELSE LET start == stoi(a[2])
                     stop  == stoi(a[3])
                 IN  IF ~start.ok \/ ~stop.ok
                     THEN [d |-> d, resp |-> Response1("ERROR", "invalid index")]
                     ELSE LET list == lrange(d, a[1], start.val, stop.val)
                          IN  [d |-> d,
                               resp |-> IF ~list.has THEN Response("NOT_FOUND")
                                        ELSE IF list.past_end THEN ResponseV("OK", junk)
                                        ELSE ResponseV("OK", list.val)]
      [] req.command = "LLEN" ->
            IF n # 1 THEN bad
            ELSE [d |-> d, resp |-> Response1("OK", to_string(llen(d, a[1])))]
      [] req.command = "SADD" ->
            IF n # 2 THEN bad
            ELSE LET r == sadd(d, a[1], a[2])
                 IN  [d |-> r.d, resp |-> Response1("OK", Bool01(r.ret))]
      [] req.command = "SREM" ->
            IF n # 2 THEN bad
            ELSE LET r == srem(d, a[1], a[2])
                 IN  [d |-> r.d, resp |-> Response1("OK", Bool01(r.ret))]
      [] req.command = "SISMEMBER" ->
            IF n # 2 THEN bad
            ELSE [d |-> d, resp |-> Response1("OK", Bool01(sismember(d, a[1], a[2])))]
      [] req.command = "SMEMBERS" ->
            IF n # 1 THEN bad
            ELSE LET members == smembers(d, a[1])
                 IN  [d |-> d,
                      resp |-> IF members.has
                               THEN ResponseV("OK", InOrder(members.val, vord))
                               ELSE Response("NOT_FOUND")]
      [] req.command = "SCARD" ->
            IF n # 1 THEN bad
            ELSE [d |-> d, resp |-> Response1("OK", to_string(scard(d, a[1])))]
      [] req.command = "QUIT" -> [d |-> d, resp |-> Response1("OK", "Goodbye")]
      [] OTHER -> [d |-> d, resp |-> Response1("ERROR", "unknown command")]

(***************************************************************************)
(* The wire (src/protocol.cpp).  A byte string on a socket is a sequence   *)
(* of pieces: word fragments, the blank, CR and LF; a read may end between *)
(* any two pieces.  A reply is the string serialize_response builds.       *)
(***************************************************************************)
SP == " "
CR == "\r"
LF == "\n"
CRLF == "\r\n"

\* std::isspace, as operator>> uses it to separate words
isspace(c) == c \in {SP, CR, LF, "\t"}

\* the words operator>> extracts from a line, one after the other
RECURSIVE Words(_, _, _)
Words(line, cur, acc) ==
    IF line = <<>> THEN (IF cur = "" THEN acc ELSE Append(acc, cur))
    ELSE IF isspace(Head(line))
         THEN Words(Tail(line), "", IF cur = "" THEN acc ELSE Append(acc, cur))
         ELSE Words(Tail(line), cur \o Head(line), acc)

\* std::toupper over the command word, on the words clients send
toupper(w) ==
    CASE w = "ping" -> "PING"
      [] w = "quit" -> "QUIT"
      [] w = "get" -> "GET"
      [] OTHER -> w

CommandNames ==
    {"SET", "GET", "DEL", "EXISTS", "EXPIRE", "TTL", "KEYS", "DBSIZE",
     "LPUSH", "RPUSH", "LPOP", "RPOP", "LRANGE", "LLEN", "SADD", "SREM",
     "SISMEMBER", "SMEMBERS", "SCARD", "PING", "QUIT"}

string_to_command(cmd) == IF cmd \in CommandNames THEN cmd ELSE "UNKNOWN"

parse_request(input) ==
    LET w == Words(input, "", <<>>)
    IN  IF w = <<>> THEN Request("UNKNOWN", <<>>)
        ELSE Request(string_to_command(toupper(w[1])), Tail(w))

\* "$<len>\r\n<item>\r\n" for every item
RECURSIVE BulkStrings(_)
BulkStrings(items) ==
    IF items = <<>> THEN ""
    ELSE "$" \o ToString(Len(Head(items))) \o CRLF \o Head(items) \o CRLF
             \o BulkStrings(Tail(items))

serialize_response(response) ==
    CASE response.status = "OK" ->
            IF response.data = <<>> THEN "+OK" \o CRLF
            ELSE IF Len(response.data) = 1 THEN BulkStrings(response.data)
            ELSE "*" \o ToString(Len(response.data)) \o CRLF
                     \o BulkStrings(response.data)
      [] response.status = "NOT_FOUND" -> "$-1" \o CRLF
      [] response.status = "ERROR" ->
            "-ERR "
                \o (IF response.data # <<>> THEN response.data[1]
                    ELSE "unknown error")
                \o CRLF
      [] response.status = "WRONG_TYPE" ->
            "-WRONGTYPE Operation against a key holding the wrong kind of value"
                \o CRLF
      [] response.status = "INVALID_ARGS" ->
            "-ERR wrong number of arguments" \o CRLF

(***************************************************************************)
(* State: the keyspace, the wall clock, and the connection worker of       *)
(* Server::handle_client, which is either blocked in recv or has executed  *)
(* a command and is about to send its response.  While it is about to      *)
(* send, last holds the request, the clock and the keyspace the command    *)
(* ran on, and the response.                                               *)
(***************************************************************************)
VARIABLES data_, now, pc, last

\* Storage::mutex_ and the threads calling into the storage engine
VARIABLES mutex_, th

\* the reference sequence the list commands are compared with
VARIABLE ref

\* Server::running_ and Server::listen_fd_, and the client sockets: the
\* bytes the peer has still to send, the replies written, the close calls
VARIABLES running_, listen_fd_, sock

\* the map a caller got from get_snapshot, and the snapshot file
VARIABLES snapshot, file

serverVars == <<running_, listen_fd_, sock>>
persistVars == <<snapshot, file>>

vars ==
    <<data_, now, pc, last, mutex_, th, ref, running_, listen_fd_, sock,
      snapshot, file>>

\* the descriptor socket() returned and INVALID_SOCKET
ListenFd == "listening"
INVALID_SOCKET == "invalid"
NoSockets == <<>>
NoSnapshot == [taken |-> FALSE]
NoFile == [written |-> FALSE]

\* the server accepts connections; nothing snapshotted or saved yet
Serving ==
    /\ running_ = TRUE
    /\ listen_fd_ = ListenFd
    /\ sock = NoSockets
    /\ snapshot = NoSnapshot
    /\ file = NoFile

\* one connection: no thread is inside the storage engine between commands
NoThreads == <<>>
Unlocked == [writer |-> 0, readers |-> {}]
NoRef == [list |-> <<>>, pushes |-> 0, pops |-> 0, resp |-> <<>>]

\* what a read past the end of an empty vector may yield
JunkReads == {<<>>, <<"a">>, <<"?">>}

NoRequest == Request("NONE", <<>>)

EmptyMap == [k \in Keys |-> Absent]

Idle == [req |-> NoRequest, at |-> 0, pre |-> EmptyMap, resp |-> Response("OK")]

Init ==
    /\ data_ = EmptyMap
    /\ now = T0
    /\ pc = "recv"
    /\ last = Idle
    /\ mutex_ = Unlocked
    /\ th = NoThreads
    /\ ref = NoRef
    /\ Serving

\* handle_client: a complete line was received, parsed and executed
Exec(req, kord, vord, junk) ==
    LET r == execute_command(data_, now, req, kord, vord, junk)
    IN  /\ data_' = r.d
        /\ last' = [req |-> req, at |-> now, pre |-> data_, resp |-> r.resp]
        /\ pc' = "send"
        /\ UNCHANGED now

Do(req, kord, vord, junk) ==
    /\ Exec(req, kord, vord, junk)
    /\ UNCHANGED <<mutex_, th, ref, serverVars, persistVars>>

\* handle_client: the response is written to the socket, back to recv
Send ==
    /\ pc = "send"
    /\ pc' = "recv"
    /\ last' = Idle
    /\ UNCHANGED <<data_, now, mutex_, th, ref, serverVars, persistVars>>

AnyKOrd == CHOOSE o \in KeyOrders : TRUE
AnyVOrd == CHOOSE o \in ValOrders : TRUE
Do1(req) == Do(req, AnyKOrd, AnyVOrd, <<>>)

\* the worker is blocked in recv and the client sends a line
Receiving == pc = "recv"

\* the wall clock advances by one second
Tick ==
    /\ pc = "recv"
    /\ now < MaxTime
    /\ now' = now + 1
    /\ UNCHANGED <<data_, pc, last, mutex_, th, ref, serverVars, persistVars>>

CmdPING == Receiving /\ Do1(Request("PING", <<>>))
CmdSET == \E k \in Keys, v \in Vals : Receiving /\ Do1(Request("SET", <<k, v>>))
CmdGET == \E k \in Keys : Receiving /\ Do1(Request("GET", <<k>>))
CmdDEL == \E k \in Keys : Receiving /\ Do1(Request("DEL", <<k>>))
CmdEXISTS == \E k \in Keys : Receiving /\ Do1(Request("EXISTS", <<k>>))
CmdEXPIRE ==
    \E k \in Keys, s \in SecTokens :
        Receiving /\ Do1(Request("EXPIRE", <<k, s>>))
CmdTTL == \E k \in Keys : Receiving /\ Do1(Request("TTL", <<k>>))
CmdKEYS ==
    \E o \in KeyOrders :
        Receiving /\ Do(Request("KEYS", <<>>), o, AnyVOrd, <<>>)
CmdDBSIZE == Receiving /\ Do1(Request("DBSIZE", <<>>))
CmdLPUSH ==
    \E k \in Keys, v \in Vals :
        Receiving /\ llen(data_, k) < MaxLen /\ Do1(Request("LPUSH", <<k, v>>))
CmdRPUSH ==
    \E k \in Keys, v \in Vals :
        Receiving /\ llen(data_, k) < MaxLen /\ Do1(Request("RPUSH", <<k, v>>))
CmdLPOP == \E k \in Keys : Receiving /\ Do1(Request("LPOP", <<k>>))
CmdRPOP == \E k \in Keys : Receiving /\ Do1(Request("RPOP", <<k>>))
CmdLRANGE ==
    \E k \in Keys, a \in IdxTokens, b \in IdxTokens, junk \in JunkReads :
        Receiving /\ Do(Request("LRANGE", <<k, a, b>>), AnyKOrd, AnyVOrd, junk)
CmdLLEN == \E k \in Keys : Receiving /\ Do1(Request("LLEN", <<k>>))
CmdSADD == \E k \in Keys, m \in Vals : Receiving /\ Do1(Request("SADD", <<k, m>>))
CmdSREM == \E k \in Keys, m \in Vals : Receiving /\ Do1(Request("SREM", <<k, m>>))
CmdSISMEMBER ==
    \E k \in Keys, m \in Vals :
        Receiving /\ Do1(Request("SISMEMBER", <<k, m>>))
CmdSMEMBERS ==
    \E k \in Keys, o \in ValOrders :
        Receiving /\ Do(Request("SMEMBERS", <<k>>), AnyKOrd, o, <<>>)
CmdSCARD == \E k \in Keys : Receiving /\ Do1(Request("SCARD", <<k>>))

Next ==
    \/ Tick
    \/ Send
    \/ CmdPING
    \/ CmdSET
    \/ CmdGET
    \/ CmdDEL
    \/ CmdEXISTS
    \/ CmdEXPIRE
    \/ CmdTTL
    \/ CmdKEYS
    \/ CmdDBSIZE
    \/ CmdLPUSH
    \/ CmdRPUSH
    \/ CmdLPOP
    \/ CmdRPOP
    \/ CmdLRANGE
    \/ CmdLLEN
    \/ CmdSADD
    \/ CmdSREM
    \/ CmdSISMEMBER
    \/ CmdSMEMBERS
    \/ CmdSCARD

Spec == Init /\ [][Next]_vars

TypeOK ==
    /\ now \in T0 .. MaxTime
    /\ \A k \in Keys : data_[k].type \in ValueType \cup {"ABSENT"}
    /\ pc \in {"recv", "send"}
    /\ last.at <= now

(***************************************************************************)
(* One connection sending list commands on one key, next to a reference    *)
(* sequence that is stepped by the same requests.                          *)
(***************************************************************************)
MaxPushes == 4
ListKey == "k1"
ListCmds == {"LPUSH", "RPUSH", "LPOP", "RPOP", "LLEN"}

\* the reference: a mathematical sequence, the counts of pushes and of
\* successful pops, and the response it expects
RefStep(r, req) ==
    LET c == req.command
        l == r.list
    IN  CASE c = "LPUSH" ->
               [list |-> <<req.args[2]>> \o l, pushes |-> r.pushes + 1,
                pops |-> r.pops,
                resp |-> Response1("OK", ToString(Len(l) + 1))]
          [] c = "RPUSH" ->
               [list |-> Append(l, req.args[2]), pushes |-> r.pushes + 1,
                pops |-> r.pops,
                resp |-> Response1("OK", ToString(Len(l) + 1))]
          [] c = "LPOP" /\ l # <<>> ->
               [list |-> Tail(l), pushes |-> r.pushes, pops |-> r.pops + 1,
                resp |-> Response1("OK", Head(l))]
          [] c = "RPOP" /\ l # <<>> ->
               [list |-> SubSeq(l, 1, Len(l) - 1), pushes |-> r.pushes,
                pops |-> r.pops + 1,
                resp |-> Response1("OK", l[Len(l)])]
          [] c \in {"LPOP", "RPOP"} /\ l = <<>> ->
               [r EXCEPT !.resp = Response("NOT_FOUND")]
          [] OTHER ->
               [r EXCEPT !.resp = Response1("OK", ToString(Len(l)))]

DoList(req) ==
    /\ Exec(req, AnyKOrd, AnyVOrd, <<>>)
    /\ ref' = RefStep(ref, req)
    /\ UNCHANGED <<mutex_, th, serverVars, persistVars>>

ListLPUSH ==
    \E v \in Vals :
        Receiving /\ ref.pushes < MaxPushes
            /\ DoList(Request("LPUSH", <<ListKey, v>>))
ListRPUSH ==
    \E v \in Vals :
        Receiving /\ ref.pushes < MaxPushes
            /\ DoList(Request("RPUSH", <<ListKey, v>>))
ListLPOP == Receiving /\ DoList(Request("LPOP", <<ListKey>>))
ListRPOP == Receiving /\ DoList(Request("RPOP", <<ListKey>>))
ListLLEN == Receiving /\ DoList(Request("LLEN", <<ListKey>>))

NextList ==
    \/ Send
    \/ ListLPUSH \/ ListRPUSH \/ ListLPOP \/ ListRPOP \/ ListLLEN

SpecList == Init /\ [][NextList]_vars

(***************************************************************************)
(* One connection sending LRANGE on a keyspace whose key holds nothing, a   *)
(* string, a set, or any list up to MaxRangeLen elements (an empty list is *)
(* what pops leave behind), with indices on both sides of the list bounds. *)
(***************************************************************************)
MaxRangeLen == 3
MaxIdx == 5
RangeKey == "k1"
RangeTokens == {ToString(i) : i \in -MaxIdx .. MaxIdx}

RECURSIVE ListsUpTo(_)
ListsUpTo(n) ==
    IF n = 0 THEN {<<>>}
    ELSE LET shorter == ListsUpTo(n - 1)
         IN  shorter \cup {Append(l, v) : l \in shorter, v \in Vals}

RangeEntries ==
    {Absent, [Value("STRING") EXCEPT !.str = "a"],
     [Value("SET") EXCEPT !.set = {"a"}]}
        \cup {[Value("LIST") EXCEPT !.list = l] : l \in ListsUpTo(MaxRangeLen)}

InitLrange ==
    /\ data_ \in {[EmptyMap EXCEPT ![RangeKey] = e] : e \in RangeEntries}
    /\ now = T0
    /\ pc = "recv"
    /\ last = Idle
    /\ mutex_ = Unlocked
    /\ th = NoThreads
    /\ ref = NoRef
    /\ Serving

RangeLRANGE ==
    \E a \in RangeTokens, b \in RangeTokens, junk \in JunkReads :
        Receiving
            /\ Do(Request("LRANGE", <<RangeKey, a, b>>), AnyKOrd, AnyVOrd, junk)

NextLrange == Send \/ RangeLRANGE

SpecLrange == InitLrange /\ [][NextLrange]_vars

(***************************************************************************)
(* Threads calling into one Storage.  Every method constructs its lock on  *)
(* entry (the thread blocks at "lock" until mutex_ admits it), runs its    *)
(* body on the keyspace it finds ("cs") and releases the lock on return.   *)
(***************************************************************************)
clear(d) == [k \in DOMAIN d |-> Absent]
get_snapshot(d) == d
restore_snapshot(d, data) == data

\* the methods that construct std::unique_lock; the others construct
\* std::shared_lock
UniqueLockOps ==
    {"set", "del", "expire", "lpush", "rpush", "lpop", "rpop", "sadd", "srem",
     "clear", "restore_snapshot"}
SharedLockOps ==
    {"get", "exists", "ttl", "lrange", "llen", "sismember", "smembers",
     "scard", "dbsize", "keys", "get_snapshot"}

\* faulty variant: set constructs a shared lock
LockKind_set_shared(op) ==
    IF op \in UniqueLockOps \ {"set"} THEN "unique" ELSE "shared"

\* faulty variant: expire constructs a shared lock
LockKind_expire_shared(op) ==
    IF op \in UniqueLockOps \ {"expire"} THEN "unique" ELSE "shared"

LockKind(op) == IF op \in UniqueLockOps THEN "unique" ELSE "shared"

\* a call: the method and its arguments (those the method does not take
\* keep their default)
Call(op, key, value, num, snap) ==
    [op |-> op, key |-> key, value |-> value, num |-> num, snap |-> snap]
NoCall == Call("none", "", "", 0, EmptyMap)
IdleThread(d) == [pc |-> "idle", call |-> NoCall, view |-> clear(d), n |-> 0]

\* what the body of a method leaves in the keyspace d it runs on
Effect(c, d, t) ==
    CASE c.op = "set" -> set(d, c.key, c.value).d
      [] c.op = "del" -> del(d, c.key).d
      [] c.op = "expire" -> expire(d, t, c.key, c.num).d
      [] c.op = "lpush" -> lpush(d, c.key, c.value).d
      [] c.op = "rpush" -> rpush(d, c.key, c.value).d
      [] c.op = "lpop" -> lpop(d, c.key).d
      [] c.op = "rpop" -> rpop(d, c.key).d
      [] c.op = "sadd" -> sadd(d, c.key, c.value).d
      [] c.op = "srem" -> srem(d, c.key, c.value).d
      [] c.op = "clear" -> clear(d)
      [] c.op = "restore_snapshot" -> restore_snapshot(d, c.snap)
      [] OTHER -> d

\* std::shared_mutex: lock / lock_shared succeed, unlock / unlock_shared
CanLock(kind) ==
    IF kind = "unique" THEN mutex_.writer = 0 /\ mutex_.readers = {}
    ELSE mutex_.writer = 0
Locked(w, kind) ==
    IF kind = "unique" THEN [mutex_ EXCEPT !.writer = w]
    ELSE [mutex_ EXCEPT !.readers = @ \cup {w}]
Released(w) ==
    [writer |-> IF mutex_.writer = w THEN 0 ELSE mutex_.writer,
     readers |-> mutex_.readers \ {w}]

\* the lock constructor returns: the thread is inside the method body
Acquire(w) ==
    /\ th[w].pc = "lock"
    /\ CanLock(LockKind(th[w].call.op))
    /\ mutex_' = Locked(w, LockKind(th[w].call.op))
    /\ th' = [th EXCEPT ![w].pc = "cs", ![w].view = data_]
    /\ UNCHANGED <<data_, now, pc, last, ref, serverVars, persistVars>>

\* get and exists found an expired entry: they unlock and go on to
\* cleanup_expired
FoundExpired(c, d, t) ==
    /\ c.op \in {"get", "exists"}
    /\ d[c.key] # Absent
    /\ is_expired(d[c.key], t)

\* the body runs and the method returns, destroying its lock
Release(w) ==
    /\ th[w].pc = "cs"
    /\ LET c == th[w].call
           v == th[w].view
           e == Effect(c, v, now)
       IN  /\ data_' = IF e = v THEN data_ ELSE e
           /\ th' = [th EXCEPT ![w] =
                        IF FoundExpired(c, v, now)
                        THEN [@ EXCEPT !.pc = "cleanup_lock", !.view = clear(v)]
                        ELSE [IdleThread(v) EXCEPT !.n = th[w].n]]
    /\ mutex_' = Released(w)
    /\ UNCHANGED <<now, pc, last, ref, serverVars, persistVars>>

\* cleanup_expired: unique lock, re-check, erase
CleanupAcquire(w) ==
    /\ th[w].pc = "cleanup_lock"
    /\ CanLock("unique")
    /\ mutex_' = Locked(w, "unique")
    /\ th' = [th EXCEPT ![w].pc = "cleanup_cs", ![w].view = data_]
    /\ UNCHANGED <<data_, now, pc, last, ref, serverVars, persistVars>>

CleanupRelease(w) ==
    /\ th[w].pc = "cleanup_cs"
    /\ LET v == th[w].view
           e == cleanup_expired(v, now, th[w].call.key)
       IN  /\ data_' = IF e = v THEN data_ ELSE e
           /\ th' = [th EXCEPT ![w] = [IdleThread(v) EXCEPT !.n = th[w].n]]
    /\ mutex_' = Released(w)
    /\ UNCHANGED <<now, pc, last, ref, serverVars, persistVars>>

(***************************************************************************)
(* NumWorkers threads, each performing SetsPerWorker SETs on keys of its   *)
(* own, as test_concurrent_access starts them.                             *)
(***************************************************************************)
NumWorkers == 3
SetsPerWorker == 2
Workers == 1 .. NumWorkers
SetKey(w, j) == "thread" \o ToString(w) \o "_key" \o ToString(j)
SetValue(w, j) == "value" \o ToString(w) \o ToString(j)
SetKeys == {SetKey(w, j) : w \in Workers, j \in 1 .. SetsPerWorker}

InitSets ==
    /\ data_ = [k \in SetKeys |-> Absent]
    /\ now = T0
    /\ pc = "recv"
    /\ last = Idle
    /\ mutex_ = Unlocked
    /\ th = [w \in Workers |-> IdleThread(data_)]
    /\ ref = NoRef
    /\ Serving

\* worker w enters its next storage.set
SetsCall(w) ==
    /\ th[w].pc = "idle"
    /\ th[w].n < SetsPerWorker
    /\ th' = [th EXCEPT ![w].pc = "lock",
                        ![w].n = @ + 1,
                        ![w].call =
                            Call("set", SetKey(w, th[w].n + 1),
                                 SetValue(w, th[w].n + 1), 0, EmptyMap)]
    /\ UNCHANGED <<data_, now, pc, last, mutex_, ref, serverVars, persistVars>>

NextSets ==
    \/ Tick
    \/ \E w \in Workers : SetsCall(w) \/ Acquire(w) \/ Release(w)

SpecSets == InitSets /\ [][NextSets]_vars

(***************************************************************************)
(* NumThreads threads calling any Storage method on one key, while the     *)
(* clock advances.                                                         *)
(***************************************************************************)
NumThreads == 2
LockThreads == 1 .. NumThreads
LockKey == "k1"
LockValue == "a"
LockSeconds == {0}
Snapshots == {set(EmptyMap, LockKey, LockValue).d}

LockCalls ==
    {Call(op, LockKey, LockValue, 0, EmptyMap) :
        op \in {"set", "lpush", "rpush", "sadd", "srem", "sismember"}}
    \cup {Call(op, LockKey, "", 0, EmptyMap) :
        op \in {"get", "del", "exists", "ttl", "lpop", "rpop", "lrange",
                "llen", "smembers", "scard"}}
    \cup {Call(op, "", "", 0, EmptyMap) :
        op \in {"clear", "dbsize", "keys", "get_snapshot"}}
    \cup {Call("expire", LockKey, "", s, EmptyMap) : s \in LockSeconds}
    \cup {Call("restore_snapshot", "", "", 0, m) : m \in Snapshots}

InitLock ==
    /\ data_ = EmptyMap
    /\ now = T0
    /\ pc = "recv"
    /\ last = Idle
    /\ mutex_ = Unlocked
    /\ th = [w \in LockThreads |-> IdleThread(data_)]
    /\ ref = NoRef
    /\ Serving

\* thread w enters a method
LockCall(w) ==
    \E c \in LockCalls :
        /\ th[w].pc = "idle"
        /\ c.op \in {"lpush", "rpush"} => llen(data_, c.key) < MaxLen
        /\ th' = [th EXCEPT ![w].pc = "lock", ![w].call = c]
        /\ UNCHANGED <<data_, now, pc, last, mutex_, ref, serverVars, persistVars>>

NextLock ==
    \/ Tick
    \/ \E w \in LockThreads :
          \/ LockCall(w)
          \/ Acquire(w)
          \/ Release(w)
          \/ CleanupAcquire(w)
          \/ CleanupRelease(w)

SpecLock == InitLock /\ [][NextLock]_vars

(***************************************************************************)
(* NumConns connections working on one key.  execute_command answers LPUSH *)
(* and RPUSH with two storage calls, the push and then llen, each under a  *)
(* lock of its own; the commands of the other connections (LPOP, DEL, SET, *)
(* one storage call each) run between them.                                *)
(***************************************************************************)
NumConns == 2
Conns == 1 .. NumConns
PushKey == "k1"
IdleConn ==
    [pc |-> "recv", req |-> NoRequest, pushed |-> 0, resp |-> Response("OK")]

InitPush ==
    /\ data_ = EmptyMap
    /\ now = T0
    /\ pc = "recv"
    /\ last = Idle
    /\ mutex_ = Unlocked
    /\ th = [c \in Conns |-> IdleConn]
    /\ ref = NoRef
    /\ Serving

\* storage_->lpush / rpush returns; pushed is the length the list has now
PushStore(c) ==
    \E cmd \in {"LPUSH", "RPUSH"}, v \in Vals :
        LET r == IF cmd = "LPUSH" THEN lpush(data_, PushKey, v)
                 ELSE rpush(data_, PushKey, v)
        IN  /\ th[c].pc = "recv"
            /\ llen(data_, PushKey) < MaxLen
            /\ data_' = r.d
            /\ th' = [th EXCEPT ![c] =
                         IF r.ret
                         THEN [pc |-> "pushed",
                               req |-> Request(cmd, <<PushKey, v>>),
                               pushed |-> llen(r.d, PushKey),
                               resp |-> Response("OK")]
                         ELSE [pc |-> "send",
                               req |-> Request(cmd, <<PushKey, v>>),
                               pushed |-> 0,
                               resp |-> Response("WRONG_TYPE")]]
            /\ UNCHANGED <<now, pc, last, mutex_, ref, serverVars, persistVars>>

\* storage_->llen returns and the response is built
PushLlen(c) ==
    /\ th[c].pc = "pushed"
    /\ th' = [th EXCEPT ![c].pc = "send",
                        ![c].resp =
                            Response1("OK", to_string(llen(data_, PushKey)))]
    /\ UNCHANGED <<data_, now, pc, last, mutex_, ref, serverVars, persistVars>>

\* a command that is one storage call
ConnOther(c) ==
    \E req \in {Request("LPOP", <<PushKey>>), Request("DEL", <<PushKey>>)}
                \cup {Request("SET", <<PushKey, v>>) : v \in Vals} :
        LET r == execute_command(data_, now, req, AnyKOrd, AnyVOrd, <<>>)
        IN  /\ th[c].pc = "recv"
            /\ data_' = r.d
            /\ th' = [th EXCEPT ![c] =
                         [pc |-> "send", req |-> req, pushed |-> 0,
                          resp |-> r.resp]]
            /\ UNCHANGED <<now, pc, last, mutex_, ref, serverVars, persistVars>>

ConnSend(c) ==
    /\ th[c].pc = "send"
    /\ th' = [th EXCEPT ![c] = IdleConn]
    /\ UNCHANGED <<data_, now, pc, last, mutex_, ref, serverVars, persistVars>>

NextPush ==
    \E c \in Conns :
        PushStore(c) \/ PushLlen(c) \/ ConnOther(c) \/ ConnSend(c)

SpecPush == InitPush /\ [][NextPush]_vars

(***************************************************************************)
(* Server::handle_client.  Two connections: the first sends one of the     *)
(* Scripts, the second one SET; the peer's bytes arrive in reads of any    *)
(* size.  A worker is blocked in recv ("recv"), is splitting what it has   *)
(* accumulated into lines ("lines"), or has closed its socket ("done").    *)
(* Every reply written is kept with the line it answers and the keyspace   *)
(* the command ran on.                                                     *)
(***************************************************************************)
Scripts ==
    {<<"SE", "T", SP, "k1", SP, "a", CR, LF, "GET", SP, "k1", LF>>,
     <<LF, CR, LF, "ping", LF, "LRANGE", SP, "k1", SP, "x", SP, "0", LF,
       "GET", LF>>,
     <<"LPUSH", SP, "k1", SP, "a", LF, "get", SP, "k1", LF, "QUIT", LF,
       "SET", SP, "k1", SP, "b", LF>>,
     <<"FOO", LF, SP, LF, "SADD", SP, "k1", SP, "a", LF,
       "LPUSH", SP, "k1", SP, "b", LF, "DEL", SP, "k1">>,
     <<"quit", SP, "x", CR, LF, "PING", LF>>}
OtherScript == <<"SET", SP, "k1", SP, "b", LF>>

Socket(script) == [script |-> script, wire |-> script, out |-> <<>>, closes |-> 0]
Worker == [pc |-> "recv", accumulated |-> <<>>]

InitConn ==
    /\ data_ = EmptyMap
    /\ now = T0
    /\ pc = "recv"
    /\ last = Idle
    /\ mutex_ = Unlocked
    /\ ref = NoRef
    /\ running_ = TRUE
    /\ listen_fd_ = ListenFd
    /\ sock \in {<<Socket(s), Socket(OtherScript)>> : s \in Scripts}
    /\ th = <<Worker, Worker>>
    /\ snapshot = NoSnapshot
    /\ file = NoFile

\* faulty variant: the search returns the last line feed
find_newline_last(acc) ==
    IF \E i \in 1 .. Len(acc) : acc[i] = LF
    THEN CHOOSE i \in 1 .. Len(acc) :
            acc[i] = LF /\ \A j \in i + 1 .. Len(acc) : acc[j] # LF
    ELSE 0

\* accumulated.find('\n'); 0 stands for npos
find_newline(acc) ==
    IF \E i \in 1 .. Len(acc) : acc[i] = LF
    THEN CHOOSE i \in 1 .. Len(acc) :
            acc[i] = LF /\ \A j \in 1 .. i - 1 : acc[j] # LF
    ELSE 0

\* if (!line.empty() && line.back() == '\r') line.pop_back()
strip_cr(line) ==
    IF line # <<>> /\ line[Len(line)] = CR
    THEN SubSeq(line, 1, Len(line) - 1)
    ELSE line

\* faulty variant: the QUIT check is missing
after_send_ignores_quit(req, resp) == "lines"

\* faulty variant: an error response ends the worker
after_send_stops_on_error(req, resp) ==
    IF req.command = "QUIT" \/ resp.status \in {"ERROR", "INVALID_ARGS"}
    THEN "done"
    ELSE "lines"

\* where the worker goes after the send: QUIT closes the socket and returns
after_send(req, resp) == IF req.command = "QUIT" THEN "done" ELSE "lines"

\* recv returns n > 0 bytes: accumulated += buffer
ConnRecv(fd) ==
    \E n \in 1 .. Len(sock[fd].wire) :
        /\ th[fd].pc = "recv"
        /\ running_
        /\ sock' = [sock EXCEPT ![fd].wire = SubSeq(@, n + 1, Len(@))]
        /\ th' = [th EXCEPT ![fd].pc = "lines",
                            ![fd].accumulated = @ \o SubSeq(sock[fd].wire, 1, n)]
        /\ UNCHANGED <<data_, now, pc, last, mutex_, ref, running_, listen_fd_,
                       persistVars>>

\* the peer has sent everything and closed: recv returns 0, break, close
ConnEof(fd) ==
    /\ th[fd].pc = "recv"
    /\ running_
    /\ sock[fd].wire = <<>>
    /\ sock' = [sock EXCEPT ![fd].closes = @ + 1]
    /\ th' = [th EXCEPT ![fd].pc = "done"]
    /\ UNCHANGED <<data_, now, pc, last, mutex_, ref, running_, listen_fd_,
                   persistVars>>

\* one turn of the inner loop: cut the first line off, skip it if empty,
\* else parse, execute, send, and close on QUIT
ConnLine(fd) ==
    /\ th[fd].pc = "lines"
    /\ find_newline(th[fd].accumulated) # 0
    /\ LET acc == th[fd].accumulated
           pos == find_newline(acc)
           line == strip_cr(SubSeq(acc, 1, pos - 1))
           rest == SubSeq(acc, pos + 1, Len(acc))
           req == parse_request(line)
           r == execute_command(data_, now, req, AnyKOrd, AnyVOrd, <<>>)
           step == after_send(req, r.resp)
       IN  IF line = <<>>
           THEN /\ th' = [th EXCEPT ![fd].accumulated = rest]
                /\ UNCHANGED <<data_, sock>>
           ELSE /\ data_' = r.d
                /\ sock' = [sock EXCEPT
                              ![fd].out =
                                  Append(@, [line |-> line, pre |-> data_,
                                             bytes |-> serialize_response(r.resp)]),
                              ![fd].closes = IF step = "done" THEN @ + 1 ELSE @]
                /\ th' = [th EXCEPT ![fd] = [pc |-> step, accumulated |-> rest]]
    /\ UNCHANGED <<now, pc, last, mutex_, ref, running_, listen_fd_, persistVars>>

\* no line feed left: the inner loop ends, back to recv
ConnWait(fd) ==
    /\ th[fd].pc = "lines"
    /\ find_newline(th[fd].accumulated) = 0
    /\ th' = [th EXCEPT ![fd].pc = "recv"]
    /\ UNCHANGED <<data_, now, pc, last, mutex_, ref, serverVars, persistVars>>

NextConn ==
    \E fd \in DOMAIN sock :
        ConnRecv(fd) \/ ConnEof(fd) \/ ConnLine(fd) \/ ConnWait(fd)

SpecConn == InitConn /\ [][NextConn]_vars

(***************************************************************************)
(* One connection sending every command of the table with zero to MaxArgs  *)
(* arguments.                                                              *)
(***************************************************************************)
MaxArgs == 4

\* n arguments: a key, then numbers where the command reads numbers
ArityArgs(cmd, n, k) ==
    [i \in 1 .. n |-> IF i = 1 THEN k
                      ELSE IF cmd \in {"EXPIRE", "LRANGE"} THEN "0" ELSE "a"]

ArityCmd ==
    \E cmd \in CommandNames, n \in 0 .. MaxArgs, k \in Keys, o \in KeyOrders :
        /\ Receiving
        /\ cmd \in {"LPUSH", "RPUSH"} => llen(data_, k) < MaxLen
        /\ Do(Request(cmd, ArityArgs(cmd, n, k)), o, AnyVOrd, <<>>)

NextArity == ArityCmd \/ Send \/ Tick

SpecArity == Init /\ [][NextArity]_vars

(***************************************************************************)
(* get_snapshot and restore_snapshot on one engine.  get_snapshot copies   *)
(* the map, and with it the shared_ptr<Value> of every entry, so the       *)
(* caller's map and data_ point to the same Value objects.  snapshot.map   *)
(* is the caller's map as it reads now, snapshot.shared the keys whose     *)
(* Value object data_ still points to, snapshot.S the keyspace as it was   *)
(* when get_snapshot returned; snapshot.restored holds from a restore to   *)
(* the next command.                                                       *)
(***************************************************************************)
InitSnapshot == Init

\* every kind of change on one key, creation and removal of the other
SnapRequests ==
    {Request("SET", <<"k1", "a">>), Request("DEL", <<"k1">>),
     Request("GET", <<"k1">>), Request("EXPIRE", <<"k1", "1">>),
     Request("RPUSH", <<"k1", "a">>), Request("LPOP", <<"k1">>),
     Request("SADD", <<"k1", "a">>), Request("SADD", <<"k1", "b">>),
     Request("SREM", <<"k1", "a">>),
     Request("SET", <<"k2", "a">>), Request("DEL", <<"k2">>)}

\* the caller's map after a command took data_ from d to d2: a Value that
\* was changed in place is changed in the caller's map too; set() puts a new
\* object into data_ and erase() drops data_'s pointer, both leave the
\* caller's object as it was
SharedAfter(snap, req, d, d2) ==
    LET key == req.args[1]
        unlinked == req.command = "SET" \/ d2[key] = Absent
    IN  IF ~snap.taken THEN snap
        ELSE IF key \notin snap.shared THEN [snap EXCEPT !.restored = FALSE]
        ELSE IF unlinked
        THEN [snap EXCEPT !.shared = @ \ {key}, !.restored = FALSE]
        ELSE [snap EXCEPT !.map[key] = d2[key], !.restored = FALSE]

SnapCmd ==
    \E req \in SnapRequests :
        LET r == execute_command(data_, now, req, AnyKOrd, AnyVOrd, <<>>)
        IN  /\ pc = "recv"
            /\ req.command = "RPUSH" => llen(data_, req.args[1]) < MaxLen
            /\ data_' = r.d
            /\ snapshot' = SharedAfter(snapshot, req, data_, r.d)
            /\ UNCHANGED <<now, pc, last, mutex_, th, ref, serverVars, file>>

\* snap = storage.get_snapshot()
TakeSnapshot ==
    /\ ~snapshot.taken
    /\ snapshot' = [taken |-> TRUE, map |-> get_snapshot(data_),
                    shared |-> {k \in Keys : data_[k] # Absent},
                    S |-> data_, restored |-> FALSE]
    /\ UNCHANGED <<data_, now, pc, last, mutex_, th, ref, serverVars, file>>

\* storage.restore_snapshot(snap)
RestoreSnapshot ==
    /\ snapshot.taken
    /\ ~snapshot.restored
    /\ data_' = restore_snapshot(data_, snapshot.map)
    /\ snapshot' = [snapshot EXCEPT
                        !.shared = {k \in Keys : snapshot.map[k] # Absent},
                        !.restored = TRUE]
    /\ UNCHANGED <<now, pc, last, mutex_, th, ref, serverVars, file>>

\* the caller's map goes out of scope
DropSnapshot ==
    /\ snapshot.taken
    /\ snapshot' = NoSnapshot
    /\ UNCHANGED <<data_, now, pc, last, mutex_, th, ref, serverVars, file>>

NextSnapshot ==
    SnapCmd \/ TakeSnapshot \/ RestoreSnapshot \/ DropSnapshot \/ Tick

SpecSnapshot == InitSnapshot /\ [][NextSnapshot]_vars

(***************************************************************************)
(* Persistence (src/persistence.cpp).  The snapshot file is the entry      *)
(* count followed by the entries; an entry is a key and the Value as       *)
(* serialize_value writes it and deserialize_value reads it back: type,    *)
(* expiration instant and the payload of that type.                        *)
(***************************************************************************)
\* count is snapshot.size(), expired entries included; the loop skips them
save_snapshot(d, t, ord) ==
    LET kept == SelectSeq(ord, LAMBDA k : d[k] # Absent /\ ~is_expired(d[k], t))
    IN  [written |-> TRUE,
         count |-> Cardinality({k \in DOMAIN d : d[k] # Absent}),
         entries |-> [i \in 1 .. Len(kept) |->
                         [key |-> kept[i], value |-> d[kept[i]]]],
         loaded |-> FALSE, at |-> 0, junk |-> FALSE]

\* the body of the loop of load_snapshot: only a STRING is put back, with
\* its remaining time to live when that is positive
LoadEntry(d, t, e) ==
    IF e.value.type # "STRING" THEN d
    ELSE LET d1 == set(d, e.key, e.value.str).d
             ttl_ == e.value.expires_at - t
         IN  IF e.value.expires_at # -1 /\ ttl_ > 0
             THEN expire(d1, t, e.key, ttl_).d
             ELSE d1

RECURSIVE LoadEntries(_, _, _)
LoadEntries(d, t, entries) ==
    IF entries = <<>> THEN d
    ELSE LoadEntries(LoadEntry(d, t, Head(entries)), t, Tail(entries))

\* what the iterations past the last entry of the file do: key_len, the
\* type byte and the lengths are read from a stream at end of file and stay
\* uninitialised; the iteration stores nothing, stores an entry under a key
\* of NUL bytes, or std::string(key_len, 0) throws
EofOutcomes == {"nothing", "junk", "throws"}

load_snapshot(d, t, f, eof) ==
    LET loaded == LoadEntries(clear(d), t, f.entries)
        short == f.count > Len(f.entries)
    IN  [d |-> loaded,
         junk |-> short /\ eof = "junk",
         ok |-> ~(short /\ eof = "throws")]

PersistRequests ==
    UNION {{Request("SET", <<k, "a">>), Request("RPUSH", <<k, "a">>),
            Request("SADD", <<k, "a">>), Request("EXPIRE", <<k, "0">>),
            Request("EXPIRE", <<k, "1">>), Request("DEL", <<k>>)}
              : k \in Keys}

\* the server executes a command; the file of the last run is no longer
\* looked at
PersistCmd ==
    \E req \in PersistRequests :
        LET r == execute_command(data_, now, req, AnyKOrd, AnyVOrd, <<>>)
        IN  /\ pc = "recv"
            /\ file.written => file.loaded
            /\ req.command = "RPUSH" => llen(data_, req.args[1]) < MaxLen
            /\ data_' = r.d
            /\ file' = NoFile
            /\ snapshot' = NoSnapshot
            /\ UNCHANGED <<now, pc, last, mutex_, th, ref, serverVars>>

\* main: Persistence::save_snapshot after start() has returned
SaveSnapshot ==
    \E ord \in KeyOrders :
        /\ pc = "recv"
        /\ ~file.written
        /\ snapshot' = [taken |-> TRUE, S |-> get_snapshot(data_), at |-> now]
        /\ file' = save_snapshot(data_, now, ord)
        /\ UNCHANGED <<data_, now, pc, last, mutex_, th, ref, serverVars>>

\* main of the next run: Persistence::load_snapshot
LoadSnapshot ==
    \E eof \in EofOutcomes :
        LET r == load_snapshot(data_, now, file, eof)
        IN  /\ pc = "recv"
            /\ file.written
            /\ ~file.loaded
            /\ data_' = r.d
            /\ pc' = IF r.ok THEN "recv" ELSE "terminated"
            /\ file' = [file EXCEPT !.loaded = r.ok, !.at = now,
                                    !.junk = r.junk]
            /\ UNCHANGED <<now, last, mutex_, th, ref, serverVars, snapshot>>

\* time passes while the server runs or is down
PersistTick ==
    /\ pc = "recv"
    /\ file.written => ~file.loaded
    /\ now < MaxTime
    /\ now' = now + 1
    /\ UNCHANGED <<data_, pc, last, mutex_, th, ref, serverVars, persistVars>>

NextPersist == PersistCmd \/ SaveSnapshot \/ LoadSnapshot \/ PersistTick

SpecPersist == Init /\ [][NextPersist]_vars

(***************************************************************************)
(* Persistence::save_snapshot on the main thread after start() returned,   *)
(* while a detached connection worker still executes commands.  Thread     *)
(* SaveThread calls get_snapshot under the shared lock and then walks the  *)
(* returned map with no lock held: for each entry it calls is_expired and  *)
(* serialize_value on the Value the entry points to.  snapshot.todo is the *)
(* part of the map not yet visited.                                        *)
(***************************************************************************)
ConnThread == 1
SaveThread == 2

\* the storage calls of the commands the worker executes
SaveKey == "k1"
SaveCalls ==
    {Call(op, SaveKey, "a", 0, EmptyMap) : op \in {"set", "rpush", "sadd"}}
    \cup {Call(op, SaveKey, "", 0, EmptyMap) : op \in {"del", "lpop"}}
    \cup {Call("expire", SaveKey, "", 1, EmptyMap),
          Call("set", "k2", "a", 0, EmptyMap)}

InitSave ==
    /\ data_ = EmptyMap
    /\ now = T0
    /\ pc = "recv"
    /\ last = Idle
    /\ mutex_ = Unlocked
    /\ th = [w \in {ConnThread, SaveThread} |-> IdleThread(data_)]
    /\ ref = NoRef
    /\ Serving

\* main returns when save_snapshot has returned: the process is over
Exited == file.written /\ th[SaveThread].pc = "idle"

\* the worker enters a Storage method
WorkerCall ==
    \E c \in SaveCalls :
        /\ th[ConnThread].pc = "idle"
        /\ ~Exited
        /\ c.op = "rpush" => llen(data_, c.key) < MaxLen
        /\ th' = [th EXCEPT ![ConnThread].pc = "lock", ![ConnThread].call = c]
        /\ UNCHANGED <<data_, now, pc, last, mutex_, ref, serverVars,
                       persistVars>>

\* the method as the request SharedAfter looks at
AsRequest(c) == Request(IF c.op = "set" THEN "SET" ELSE c.op, <<c.key>>)

\* the worker's method body has run and returns, destroying its lock
WorkerReturn ==
    /\ th[ConnThread].pc = "cs"
    /\ LET c == th[ConnThread].call
           e == Effect(c, data_, now)
       IN  /\ data_' = e
           /\ snapshot' = SharedAfter(snapshot, AsRequest(c), data_, e)
    /\ th' = [th EXCEPT ![ConnThread] = IdleThread(data_)]
    /\ mutex_' = Released(ConnThread)
    /\ UNCHANGED <<now, pc, last, ref, serverVars, file>>

\* the worker is inside a method that changes the Value at k in place, a
\* Value the map returned by get_snapshot points to as well
WritingValue(k) ==
    LET c == th[ConnThread].call
    IN  /\ th[ConnThread].pc = "cs"
        /\ c.key = k
        /\ c.op # "set"
        /\ snapshot.taken
        /\ k \in snapshot.shared
        /\ Effect(c, data_, now)[k] \notin {data_[k], Absent}

\* save_snapshot: the file is open, storage.get_snapshot() is called
SaveCall ==
    /\ th[SaveThread].pc = "idle"
    /\ ~file.written
    /\ th' = [th EXCEPT ![SaveThread].pc = "lock",
                        ![SaveThread].call =
                            Call("get_snapshot", "", "", 0, EmptyMap)]
    /\ UNCHANGED <<data_, now, pc, last, mutex_, ref, serverVars, persistVars>>

\* get_snapshot returns the copy of the map and unlocks; count is written
SaveCopied ==
    /\ th[SaveThread].pc = "cs"
    /\ LET held == {k \in Keys : data_[k] # Absent}
       IN  /\ snapshot' = [taken |-> TRUE, map |-> get_snapshot(data_),
                           shared |-> held, S |-> data_, restored |-> FALSE,
                           todo |-> held]
           /\ file' = [written |-> TRUE, count |-> Cardinality(held),
                       entries |-> <<>>, loaded |-> FALSE, at |-> 0,
                       junk |-> FALSE]
    /\ th' = [th EXCEPT ![SaveThread].pc = "loop"]
    /\ mutex_' = Released(SaveThread)
    /\ UNCHANGED <<data_, now, pc, last, ref, serverVars>>

\* the loop takes the next entry and starts to read its Value
SaveVisit ==
    \E k \in Keys :
        /\ th[SaveThread].pc = "loop"
        /\ k \in snapshot.todo
        /\ th' = [th EXCEPT ![SaveThread].pc = "reading",
                            ![SaveThread].call.key = k]
        /\ snapshot' = [snapshot EXCEPT !.todo = @ \ {k}]
        /\ UNCHANGED <<data_, now, pc, last, mutex_, ref, serverVars, file>>

\* is_expired and serialize_value have read the Value: an expired entry is
\* skipped, another one is written.  A Value the worker was changing at
\* the time is read as it was or as it becomes, and the entry is marked.
SaveEntry ==
    /\ th[SaveThread].pc = "reading"
    /\ LET k == th[SaveThread].call.key
           seen == {snapshot.map[k]}
                     \cup (IF WritingValue(k)
                           THEN {Effect(th[ConnThread].call, data_, now)[k]}
                           ELSE {})
       IN  \E v \in seen :
               file' = IF is_expired(v, now) THEN file
                       ELSE [file EXCEPT
                               !.entries = Append(@, [key |-> k, value |-> v]),
                               !.junk = @ \/ WritingValue(k)]
    /\ th' = [th EXCEPT ![SaveThread].pc = "loop"]
    /\ UNCHANGED <<data_, now, pc, last, mutex_, ref, serverVars, snapshot>>

\* the loop is over, save_snapshot returns and the map is destroyed
SaveReturn ==
    /\ th[SaveThread].pc = "loop"
    /\ snapshot.todo = {}
    /\ th' = [th EXCEPT ![SaveThread] = IdleThread(data_)]
    /\ snapshot' = NoSnapshot
    /\ UNCHANGED <<data_, now, pc, last, mutex_, ref, serverVars, file>>

NextSave ==
    \/ Tick
    \/ WorkerCall
    \/ Acquire(ConnThread)
    \/ WorkerReturn
    \/ SaveCall
    \/ Acquire(SaveThread)
    \/ SaveCopied
    \/ SaveVisit
    \/ SaveEntry
    \/ SaveReturn

SpecSave == InitSave /\ [][NextSave]_vars

(***************************************************************************)
(* Server::start and Server::stop.  The main thread runs start(); stop()   *)
(* is called from the signal handler, and once more by ~Server.  th.main   *)
(* is the acceptor's position, th.sig the position inside stop(); sock is  *)
(* the listening socket as the kernel has it: whether it is open, the      *)
(* clients waiting to be accepted, the connections handed to a worker.     *)
(***************************************************************************)
MaxStops == 2
MaxClients == 2

InitStop ==
    /\ data_ = EmptyMap
    /\ now = T0
    /\ pc = "recv"
    /\ last = Idle
    /\ mutex_ = Unlocked
    /\ ref = NoRef
    /\ running_ = FALSE
    /\ listen_fd_ = INVALID_SOCKET
    /\ th = [main |-> [pc |-> "start", observed |-> FALSE],
             sig |-> [pc |-> "idle", calls |-> 0]]
    /\ sock = [open |-> FALSE, backlog |-> 0, arrived |-> 0, handed |-> 0,
               closes |-> 0]
    /\ snapshot = NoSnapshot
    /\ file = NoFile

StoreUnchanged == UNCHANGED <<data_, now, pc, last, mutex_, ref, persistVars>>

\* start(): not running, init_socket() succeeds, running_ = true
StartServing ==
    /\ th.main.pc = "start"
    /\ ~running_
    /\ listen_fd_' = ListenFd
    /\ sock' = [sock EXCEPT !.open = TRUE]
    /\ running_' = TRUE
    /\ th' = [th EXCEPT !.main.pc = "check"]
    /\ StoreUnchanged

\* start(): init_socket() fails (socket, bind or listen), start returns
StartFails ==
    /\ th.main.pc = "start"
    /\ ~running_
    /\ th' = [th EXCEPT !.main.pc = "returned"]
    /\ UNCHANGED <<running_, listen_fd_, sock>>
    /\ StoreUnchanged

\* while (running_)
LoopCheck ==
    /\ th.main.pc = "check"
    /\ th' = IF running_ THEN [th EXCEPT !.main.pc = "accept"]
             ELSE [th EXCEPT !.main.pc = "returned", !.main.observed = TRUE]
    /\ UNCHANGED <<running_, listen_fd_, sock>>
    /\ StoreUnchanged

\* a client connects to the listening socket
ClientArrives ==
    /\ sock.open
    /\ sock.arrived < MaxClients
    /\ sock' = [sock EXCEPT !.backlog = @ + 1, !.arrived = @ + 1]
    /\ UNCHANGED <<running_, listen_fd_, th>>
    /\ StoreUnchanged

\* accept returns a connection
AcceptClient ==
    /\ th.main.pc = "accept"
    /\ listen_fd_ = ListenFd
    /\ sock.open
    /\ sock.backlog > 0
    /\ sock' = [sock EXCEPT !.backlog = @ - 1]
    /\ th' = [th EXCEPT !.main.pc = "spawn"]
    /\ UNCHANGED <<running_, listen_fd_>>
    /\ StoreUnchanged

\* accept returns INVALID_SOCKET: the descriptor is invalid or was closed;
\* if (running_) print; continue
AcceptError ==
    /\ th.main.pc = "accept"
    /\ listen_fd_ = INVALID_SOCKET \/ ~sock.open
    /\ th' = [th EXCEPT !.main.pc = "check",
                        !.main.observed = @ \/ ~running_]
    /\ UNCHANGED <<running_, listen_fd_, sock>>
    /\ StoreUnchanged

\* std::thread(handle_client).detach()
SpawnWorker ==
    /\ th.main.pc = "spawn"
    /\ sock' = [sock EXCEPT !.handed = @ + 1]
    /\ th' = [th EXCEPT !.main.pc = "check"]
    /\ UNCHANGED <<running_, listen_fd_>>
    /\ StoreUnchanged

\* stop() is entered: if (!running_) return
StopCall ==
    /\ th.sig.pc = "idle"
    /\ th.sig.calls < MaxStops
    /\ th' = IF running_ THEN [th EXCEPT !.sig.pc = "flag"]
             ELSE [th EXCEPT !.sig.calls = @ + 1]
    /\ UNCHANGED <<running_, listen_fd_, sock>>
    /\ StoreUnchanged

\* running_ = false
StopFlag ==
    /\ th.sig.pc = "flag"
    /\ running_' = FALSE
    /\ th' = [th EXCEPT !.sig.pc = "close"]
    /\ UNCHANGED <<listen_fd_, sock>>
    /\ StoreUnchanged

\* faulty variant: stop leaves the listening socket open
stop_closes_never(fd) == FALSE

\* if (listen_fd_ != INVALID_SOCKET)
stop_closes(fd) == fd # INVALID_SOCKET

\* CLOSE_SOCKET(listen_fd_)
StopClose ==
    /\ th.sig.pc = "close"
    /\ IF stop_closes(listen_fd_)
       THEN /\ sock' = [sock EXCEPT !.open = FALSE, !.closes = @ + 1]
            /\ th' = [th EXCEPT !.sig.pc = "invalidate"]
       ELSE /\ th' = [th EXCEPT !.sig.pc = "idle", !.sig.calls = @ + 1]
            /\ UNCHANGED sock
    /\ UNCHANGED <<running_, listen_fd_>>
    /\ StoreUnchanged

\* listen_fd_ = INVALID_SOCKET; stop returns
StopInvalidate ==
    /\ th.sig.pc = "invalidate"
    /\ listen_fd_' = INVALID_SOCKET
    /\ th' = [th EXCEPT !.sig.pc = "idle", !.sig.calls = @ + 1]
    /\ UNCHANGED <<running_, sock>>
    /\ StoreUnchanged

Acceptor ==
    \/ StartServing \/ StartFails \/ LoopCheck \/ AcceptClient
    \/ AcceptError \/ SpawnWorker
Stopping == StopFlag \/ StopClose \/ StopInvalidate

NextStop == Acceptor \/ ClientArrives \/ StopCall \/ Stopping

SpecStop == InitStop /\ [][NextStop]_vars

\* the main thread and a signal handler that has started keep running
SpecStopFair == SpecStop /\ WF_vars(Acceptor) /\ WF_vars(Stopping)

(***************************************************************************)
(* Vocabulary of the properties.  They are stated on the worker about to   *)
(* send: last.pre is the keyspace the command ran on, last.at the clock it *)
(* ran at, data_ the keyspace it left behind.                              *)
(***************************************************************************)
Sent(cmd) == pc = "send" /\ last.req.command = cmd
SentOneOf(cmds) == pc = "send" /\ last.req.command \in cmds

\* the key, second argument and entry the last command addressed
K == last.req.args[1]
A2 == last.req.args[2]
PreK == last.pre[K]

\* the Value has an expiration instant and it lies strictly before t
ExpiredAt(v, t) == v # Absent /\ v.expires_at # -1 /\ v.expires_at < t

\* the response a command would get on keyspace d at clock t
RespAt(d, t, cmd, args) ==
    execute_command(d, t, Request(cmd, args), AnyKOrd, AnyVOrd, <<>>).resp

Elems(seq) == {seq[i] : i \in 1 .. Len(seq)}

OtherKeyHeld == \E k \in Keys : k # K /\ last.pre[k] # Absent

(***************************************************************************)
(* C1.  SET(k,v) followed by GET(k), with no other command on k in         *)
(* between, returns exactly v, whatever k held before (a string, a list, a *)
(* set, with or without expiry) and however far the clock advanced.        *)
(***************************************************************************)
C1_SetThenGet ==
    Sent("SET") =>
        \A t \in last.at .. MaxTime :
            RespAt(data_, t, "GET", <<K>>) = Response1("OK", A2)

\* a SET over a list that had an expiry, and the GET after it yields v
C1_Witness ==
    /\ Sent("SET")
    /\ PreK.type = "LIST"
    /\ PreK.expires_at # -1
    /\ RespAt(data_, now, "GET", <<K>>) = Response1("OK", A2)

(***************************************************************************)
(* C2.  GET, EXISTS and KEYS never expose an expired entry: if the Value   *)
(* at k has an expiration instant strictly in the past when the command    *)
(* runs, GET(k) is Not-found, EXISTS(k) is "0" and KEYS does not list k.   *)
(***************************************************************************)
C2_NoExpiredExposed ==
    /\ (Sent("GET") /\ ExpiredAt(PreK, last.at))
            => last.resp = Response("NOT_FOUND")
    /\ (Sent("EXISTS") /\ ExpiredAt(PreK, last.at))
            => last.resp = Response1("OK", "0")
    /\ Sent("KEYS") =>
            \A k \in Keys :
                ExpiredAt(last.pre[k], last.at) => k \notin Elems(last.resp.data)

\* a GET on a string whose expiration instant has passed
C2_Witness ==
    /\ Sent("GET")
    /\ PreK.type = "STRING"
    /\ ExpiredAt(PreK, last.at)
    /\ last.resp = Response("NOT_FOUND")

(***************************************************************************)
(* C3.  DBSIZE returns the number of non-expired keys at call time: it     *)
(* equals the number of keys KEYS returns on the same keyspace at the same *)
(* clock, also when expired entries nobody touched are still in the map.   *)
(***************************************************************************)
C3_DbsizeCountsKeys ==
    Sent("DBSIZE") =>
        last.resp =
            Response1("OK", to_string(Len(RespAt(last.pre, last.at, "KEYS", <<>>).data)))

(***************************************************************************)
(* C4.  SMEMBERS never returns the members of an expired set: if the set   *)
(* at k has an expiration instant in the past, SMEMBERS(k) is Not-found,   *)
(* as for a missing key.                                                   *)
(***************************************************************************)
C4_SmembersHidesExpired ==
    (Sent("SMEMBERS") /\ PreK.type = "SET" /\ ExpiredAt(PreK, last.at))
        => last.resp = Response("NOT_FOUND")

(***************************************************************************)
(* C5.  TTL(k) is consistent with existence at every clock value: -2       *)
(* exactly when k is missing or expired, i.e. exactly when EXISTS(k) is    *)
(* false at that instant; -1 exactly when k exists without expiry; a       *)
(* strictly positive number for every existing key with an expiry,         *)
(* including when the clock equals the expiration instant.                 *)
(***************************************************************************)
C5_TtlMatchesExistence ==
    Sent("TTL") =>
        LET gone == PreK = Absent \/ ExpiredAt(PreK, last.at)
            r == last.resp.data[1]
        IN  /\ last.resp.status = "OK"
            /\ (r = "-2") <=> gone
            /\ (r = "-2") <=> ~exists(last.pre, last.at, K).ret
            /\ (r = "-1") <=> (~gone /\ PreK.expires_at = -1)
            /\ (~gone /\ PreK.expires_at # -1)
                    => \E n \in 1 .. MaxTime + 9 : r = to_string(n)

(***************************************************************************)
(* C6.  LPUSH or RPUSH on a key that holds a String returns WRONGTYPE and  *)
(* leaves the keyspace unchanged: the string and its expiry are as before  *)
(* and a following GET(k) returns the string (while it has not expired).   *)
(***************************************************************************)
C6_PushOnStringIsWrongType ==
    (SentOneOf({"LPUSH", "RPUSH"}) /\ PreK.type = "STRING") =>
        /\ last.resp = Response("WRONG_TYPE")
        /\ data_ = last.pre
        /\ \A t \in last.at .. MaxTime :
                ~ExpiredAt(PreK, t)
                    => RespAt(data_, t, "GET", <<K>>) = Response1("OK", PreK.str)

\* an LPUSH on a string with a pending expiry, another key being present
C6_Witness ==
    /\ Sent("LPUSH")
    /\ PreK.type = "STRING"
    /\ PreK.expires_at >= last.at
    /\ OtherKeyHeld
    /\ last.resp = Response("WRONG_TYPE")

(***************************************************************************)
(* C7.  SADD or SREM on a key holding a String or a List produces the      *)
(* WRONGTYPE response, not the "0" reply, and leaves the Value unchanged.  *)
(***************************************************************************)
C7_SetOpsOnWrongType ==
    (SentOneOf({"SADD", "SREM"}) /\ PreK.type \in {"STRING", "LIST"}) =>
        /\ last.resp = Response("WRONG_TYPE")
        /\ data_ = last.pre

(***************************************************************************)
(* C8.  Pops and reads never create a key: LPOP/RPOP on a missing key or   *)
(* an empty list return no value, and after LPOP, RPOP, GET, EXISTS, TTL,  *)
(* LLEN, LRANGE, SISMEMBER, SMEMBERS, SCARD or SREM on a missing key the   *)
(* keyspace is as before, so DBSIZE and KEYS are unchanged.                *)
(***************************************************************************)
PopsAndReads ==
    {"LPOP", "RPOP", "GET", "EXISTS", "TTL", "LLEN", "LRANGE", "SISMEMBER",
     "SMEMBERS", "SCARD", "SREM"}

C8_PopsAndReadsCreateNoKey ==
    /\ (SentOneOf({"LPOP", "RPOP"})
            /\ (PreK = Absent \/ (PreK.type = "LIST" /\ PreK.list = <<>>)))
          => last.resp = Response("NOT_FOUND")
    /\ (SentOneOf(PopsAndReads) /\ PreK = Absent) =>
          /\ data_[K] = Absent
          /\ data_ = last.pre
          /\ dbsize(data_) = dbsize(last.pre)
          /\ \A t \in last.at .. MaxTime, o \in KeyOrders :
                keys(data_, t, o) = keys(last.pre, t, o)

\* an LPOP on a missing key while the other key is present
C8_Witness ==
    /\ Sent("LPOP")
    /\ PreK = Absent
    /\ OtherKeyHeld
    /\ last.resp = Response("NOT_FOUND")
    /\ dbsize(data_) = 1

(***************************************************************************)
(* C9.  LPUSH/RPUSH/SADD on a missing key create a container of the        *)
(* matching variant holding exactly the pushed element or member, without  *)
(* expiry: TTL(k) answers -1 right after and at every later instant.       *)
(***************************************************************************)
C9_CreateOnMissing ==
    (SentOneOf({"LPUSH", "RPUSH", "SADD"}) /\ PreK = Absent) =>
        /\ last.resp = Response1("OK", "1")
        /\ data_ =
              [last.pre EXCEPT ![K] =
                  IF last.req.command = "SADD"
                  THEN [type |-> "SET", str |-> "", list |-> <<>>,
                        set |-> {A2}, expires_at |-> -1]
                  ELSE [type |-> "LIST", str |-> "", list |-> <<A2>>,
                        set |-> {}, expires_at |-> -1]]
        /\ data_[K].expires_at = -1
        /\ \A t \in last.at .. MaxTime :
              RespAt(data_, t, "TTL", <<K>>) = Response1("OK", "-1")

\* a SADD on a missing key while the other key is present
C9_Witness ==
    /\ Sent("SADD")
    /\ PreK = Absent
    /\ OtherKeyHeld
    /\ data_[K].type = "SET"
    /\ data_[K].set = {A2}

(***************************************************************************)
(* C10.  EXPIRE on a missing key returns "0" and leaves the keyspace       *)
(* unchanged; on an existing key it replaces any earlier expiration        *)
(* instant with now + s and changes nothing else.                          *)
(***************************************************************************)
C10_ExpireOverwrites ==
    Sent("EXPIRE") =>
        IF PreK = Absent
        THEN /\ last.resp = Response1("OK", "0")
             /\ data_ = last.pre
        ELSE /\ last.resp = Response1("OK", "1")
             /\ data_ = [last.pre EXCEPT ![K].expires_at = last.at + stoi(A2).val]

\* an EXPIRE that replaces a different, earlier expiration instant
C10_Witness ==
    /\ Sent("EXPIRE")
    /\ PreK # Absent
    /\ PreK.expires_at # -1
    /\ PreK.expires_at # last.at + stoi(A2).val
    /\ data_[K].expires_at = last.at + stoi(A2).val

(***************************************************************************)
(* C11.  expire(k, s) returns true if and only if k existed and was not    *)
(* expired at call time: on an entry whose expiration instant has passed   *)
(* but that is still in the map, EXPIRE answers "0".                       *)
(***************************************************************************)
C11_ExpireTrueIffLive ==
    Sent("EXPIRE") =>
        (last.resp = Response1("OK", "1"))
            <=> (PreK # Absent /\ ~ExpiredAt(PreK, last.at))

(***************************************************************************)
(* C12.  EXPIRE k s with s = 0 or s < 0 on an existing key makes the key   *)
(* disappear immediately: every GET or EXISTS on k issued afterwards, also *)
(* within the same clock second, reports the key as absent.                *)
(***************************************************************************)
C12_NonPositiveExpireRemoves ==
    (Sent("EXPIRE") /\ PreK # Absent /\ ~ExpiredAt(PreK, last.at)
        /\ stoi(A2).val <= 0) =>
        \A t \in last.at .. MaxTime :
            /\ RespAt(data_, t, "GET", <<K>>) = Response("NOT_FOUND")
            /\ RespAt(data_, t, "EXISTS", <<K>>) = Response1("OK", "0")

(***************************************************************************)
(* C13.  SET replaces the whole Value, variant and expiry included: after  *)
(* SET(k,v) on a key that had an expiration (pending or passed) or held a  *)
(* list or a set, k holds the String v without expiry, TTL answers -1, and *)
(* k does not expire however far the clock advances.                       *)
(***************************************************************************)
C13_SetReplacesValue ==
    Sent("SET") =>
        /\ last.resp = Response("OK")
        /\ data_ =
              [last.pre EXCEPT ![K] =
                  [type |-> "STRING", str |-> A2, list |-> <<>>, set |-> {},
                   expires_at |-> -1]]
        /\ \A t \in last.at .. MaxTime :
              /\ RespAt(data_, t, "TTL", <<K>>) = Response1("OK", "-1")
              /\ RespAt(data_, t, "EXISTS", <<K>>) = Response1("OK", "1")

\* a SET over a set whose expiration instant had passed
C13_Witness ==
    /\ Sent("SET")
    /\ PreK.type = "SET"
    /\ ExpiredAt(PreK, last.at)
    /\ data_[K].type = "STRING"
    /\ data_[K].expires_at = -1

(***************************************************************************)
(* C14.  After DEL(k), EXISTS(k) answers 0 (until a creating command);     *)
(* DEL answers "1" exactly when an entry for k was in the map and was      *)
(* removed, "0" when there was none, and a second DEL of k answers "0".    *)
(***************************************************************************)
C14_DelRemoves ==
    Sent("DEL") =>
        /\ last.resp = Response1("OK", Bool01(PreK # Absent))
        /\ data_ = [last.pre EXCEPT ![K] = Absent]
        /\ \A t \in last.at .. MaxTime :
              /\ RespAt(data_, t, "EXISTS", <<K>>) = Response1("OK", "0")
              /\ RespAt(data_, t, "DEL", <<K>>) = Response1("OK", "0")

\* a DEL that removed a live list while the other key stays
C14_Witness ==
    /\ Sent("DEL")
    /\ PreK.type = "LIST"
    /\ ~ExpiredAt(PreK, last.at)
    /\ OtherKeyHeld
    /\ last.resp = Response1("OK", "1")
    /\ data_[K] = Absent

(***************************************************************************)
(* C18.  The set commands behave as a mathematical set S (empty for a      *)
(* missing key): SADD answers 1 iff m was not in S and leaves S + {m};     *)
(* SREM answers 1 iff m was in S and leaves S - {m}; SISMEMBER reports     *)
(* m in S and changes nothing; SCARD is the number of members; a repeated  *)
(* SADD(k,m) answers 0 and leaves SCARD as it was.                         *)
(***************************************************************************)
SetBefore == IF PreK = Absent THEN {} ELSE PreK.set
OnLiveSetOrMissing ==
    PreK = Absent \/ (PreK.type = "SET" /\ ~ExpiredAt(PreK, last.at))

C18_SetCommandsAreASet ==
    /\ (Sent("SADD") /\ OnLiveSetOrMissing) =>
          /\ last.resp = Response1("OK", Bool01(A2 \notin SetBefore))
          /\ data_[K].type = "SET"
          /\ data_[K].set = SetBefore \cup {A2}
          /\ RespAt(data_, last.at, "SADD", <<K, A2>>) = Response1("OK", "0")
          /\ scard(sadd(data_, K, A2).d, K) = scard(data_, K)
          /\ RespAt(data_, last.at, "SCARD", <<K>>)
                = Response1("OK", to_string(Cardinality(SetBefore \cup {A2})))
    /\ (Sent("SREM") /\ OnLiveSetOrMissing) =>
          /\ last.resp = Response1("OK", Bool01(A2 \in SetBefore))
          /\ PreK # Absent => data_[K].set = SetBefore \ {A2}
          /\ RespAt(data_, last.at, "SISMEMBER", <<K, A2>>) = Response1("OK", "0")
    /\ (Sent("SISMEMBER") /\ OnLiveSetOrMissing) =>
          /\ last.resp = Response1("OK", Bool01(A2 \in SetBefore))
          /\ data_ = last.pre
    /\ (Sent("SCARD") /\ OnLiveSetOrMissing) =>
          /\ last.resp = Response1("OK", to_string(Cardinality(SetBefore)))
          /\ data_ = last.pre

\* a SADD of a member the set already holds, next to another member
C18_Witness ==
    /\ Sent("SADD")
    /\ PreK.type = "SET"
    /\ A2 \in PreK.set
    /\ Cardinality(PreK.set) = 2
    /\ last.resp = Response1("OK", "0")
    /\ data_[K].set = PreK.set

(***************************************************************************)
(* C15.  The list commands behave as a sequence: LPUSH prepends, RPUSH     *)
(* appends, LPOP removes and returns the head, RPOP the tail, LLEN is the  *)
(* number of pushes minus the number of successful pops; for every         *)
(* sequence of these commands on one key the responses and the stored list *)
(* equal those of the reference sequence.                                  *)
(***************************************************************************)
C15_ListRefinesSequence ==
    /\ IF ref.pushes = 0 THEN data_[ListKey] = Absent
        ELSE data_[ListKey].type = "LIST" /\ data_[ListKey].list = ref.list
    /\ llen(data_, ListKey) = ref.pushes - ref.pops
    /\ SentOneOf(ListCmds) => last.resp = ref.resp
    /\ Sent("LLEN") =>
          last.resp = Response1("OK", ToString(ref.pushes - ref.pops))

\* an RPOP that took the tail "b" of <<a, b>> after an earlier pop
C15_Witness ==
    /\ Sent("RPOP")
    /\ ref.pops = 2
    /\ last.pre[ListKey].list = <<"a", "b">>
    /\ last.resp = Response1("OK", "b")
    /\ data_[ListKey].list = <<"a">>

(***************************************************************************)
(* C16.  LRANGE(k, start, stop) on a non-empty list of length n returns,   *)
(* in list order, exactly the elements at positions a..b, where a and b    *)
(* are start and stop after adding n to a negative index and clamping into *)
(* [0, n-1]; it returns an empty array when a > b.  In particular (0,-1)   *)
(* returns the whole list and (-2,-1) the last two elements.               *)
(***************************************************************************)
A3 == last.req.args[3]
Normalized(i, n) ==
    LET j == IF i < 0 THEN i + n ELSE i
    IN  IF j < 0 THEN 0 ELSE IF j > n - 1 THEN n - 1 ELSE j
OnNonEmptyList == PreK.type = "LIST" /\ PreK.list # <<>>

C16_LrangeSlice ==
    (Sent("LRANGE") /\ OnNonEmptyList) =>
        LET l == PreK.list
            n == Len(l)
            a == Normalized(stoi(A2).val, n)
            b == Normalized(stoi(A3).val, n)
        IN  /\ last.resp.status = "OK"
            /\ Len(last.resp.data) = (IF a > b THEN 0 ELSE b - a + 1)
            /\ \A i \in 1 .. Len(last.resp.data) : last.resp.data[i] = l[a + i]
            /\ (A2 = "0" /\ A3 = "-1") => last.resp.data = l
            /\ (A2 = "-2" /\ A3 = "-1" /\ n >= 2) =>
                  last.resp.data = <<l[n - 1], l[n]>>
            /\ data_ = last.pre

\* LRANGE -2 -1 on a three-element list returned its last two elements
C16_Witness ==
    /\ Sent("LRANGE")
    /\ PreK.list = <<"a", "b", "a">>
    /\ A2 = "-2"
    /\ A3 = "-1"
    /\ last.resp = ResponseV("OK", <<"b", "a">>)

AllFinished ==
    \A w \in Workers : th[w].pc = "idle" /\ th[w].n = SetsPerWorker

C19_NoWriteLost ==
    AllFinished =>
        /\ RespAt(data_, now, "DBSIZE", <<>>)
              = Response1("OK", ToString(NumWorkers * SetsPerWorker))
        /\ \A w \in Workers, j \in 1 .. SetsPerWorker :
              RespAt(data_, now, "GET", <<SetKey(w, j)>>)
                  = Response1("OK", SetValue(w, j))

\* every worker has returned from its last set
C19_Witness ==
    /\ AllFinished
    /\ mutex_ = Unlocked
    /\ data_[SetKey(NumWorkers, SetsPerWorker)].str
          = SetValue(NumWorkers, SetsPerWorker)

(***************************************************************************)
(* C20.  Keyspace access follows the reader-writer discipline in every     *)
(* interleaving: while any of set, del, expire, lpush, rpush, lpop, rpop,  *)
(* sadd, srem, clear, restore or a lazy-expiration removal is modifying    *)
(* the map or a Value, no other operation (reader or writer) is inside its *)
(* critical section; only read-only operations overlap each other.         *)
(***************************************************************************)
InCriticalSection(w) == th[w].pc \in {"cs", "cleanup_cs"}
Modifying(w) ==
    \/ th[w].pc = "cleanup_cs"
    \/ /\ th[w].pc = "cs"
       /\ th[w].call.op \in
             {"set", "del", "expire", "lpush", "rpush", "lpop", "rpop",
              "sadd", "srem", "clear", "restore_snapshot"}

C20_ReaderWriterDiscipline ==
    \A w \in DOMAIN th, u \in DOMAIN th :
        /\ (w # u /\ Modifying(w)) => ~InCriticalSection(u)
        /\ (w # u /\ InCriticalSection(w) /\ InCriticalSection(u)) =>
              /\ th[w].pc = "cs"
              /\ th[w].call.op \in
                    {"get", "exists", "ttl", "keys", "dbsize", "llen",
                     "lrange", "sismember", "smembers", "scard",
                     "get_snapshot"}
        /\ InCriticalSection(w) => th[w].view = data_

\* a lazy-expiration removal in progress while the other thread waits
\* for the lock
C20_Witness ==
    \E w \in DOMAIN th, u \in DOMAIN th :
        /\ w # u
        /\ th[w].pc = "cleanup_cs"
        /\ th[w].call.op = "get"
        /\ mutex_.writer = w
        /\ th[u].pc = "lock"
        /\ th[u].call.op = "expire"

(***************************************************************************)
(* C21.  Lazy expiration upgrades its lock safely: a GET or EXISTS that    *)
(* sees an expired entry releases its shared lock before taking the        *)
(* exclusive lock (no self-deadlock), and the removal re-checks the entry  *)
(* under the exclusive lock, so a fresh Value written to the same key by a *)
(* concurrent SET between the release and the re-acquire is never removed  *)
(* by the pending cleanup.                                                 *)
(***************************************************************************)
HoldsNoLock(w) == mutex_.writer # w /\ w \notin mutex_.readers

\* thread w returns from cleanup_expired in this step
CleanupReturns(w) == th[w].pc = "cleanup_cs" /\ th'[w].pc = "idle"

C21_LazyExpirationUpgrade ==
    /\ [](\A w \in DOMAIN th :
            /\ th[w].pc = "cleanup_lock" => HoldsNoLock(w)
            /\ th[w].pc = "cleanup_cs" =>
                  mutex_ = [writer |-> w, readers |-> {}])
    /\ [][\A w \in DOMAIN th :
            CleanupReturns(w) =>
                \A k \in DOMAIN data_ :
                    data_'[k] # data_[k] =>
                        /\ k = th[w].call.key
                        /\ ExpiredAt(data_[k], now)
                        /\ data_'[k] = Absent]_vars

\* the cleanup holds the exclusive lock on a key that a SET has meanwhile
\* given a fresh Value
C21_Witness ==
    \E w \in DOMAIN th :
        /\ th[w].pc = "cleanup_cs"
        /\ th[w].call.op \in {"get", "exists"}
        /\ data_[th[w].call.key].type = "STRING"
        /\ data_[th[w].call.key].expires_at = -1

(***************************************************************************)
(* C22.  The reply to a successful LPUSH/RPUSH is the new length of the    *)
(* list, i.e. the length of the list immediately after this push took      *)
(* effect, in every interleaving with commands of other connections on the *)
(* same key (concurrent LPUSH, LPOP, DEL, SET).                            *)
(***************************************************************************)
C22_PushReplyIsNewLength ==
    \A c \in DOMAIN th :
        (/\ th[c].pc = "send"
         /\ th[c].req.command \in {"LPUSH", "RPUSH"}
         /\ th[c].resp.status = "OK") =>
            th[c].resp = Response1("OK", ToString(th[c].pushed))

(***************************************************************************)
(* The lines a connection has to answer: the bytes received so far, cut at *)
(* every line feed, a trailing CR dropped, empty lines left out, up to and *)
(* including the first QUIT.                                               *)
(***************************************************************************)
Received(fd) ==
    SubSeq(sock[fd].script, 1, Len(sock[fd].script) - Len(sock[fd].wire))

RECURSIVE CompleteLines(_, _)
CompleteLines(bytes, cur) ==
    IF bytes = <<>> THEN <<>>
    ELSE IF Head(bytes) = LF THEN <<cur>> \o CompleteLines(Tail(bytes), <<>>)
    ELSE CompleteLines(Tail(bytes), Append(cur, Head(bytes)))

WithoutCR(l) ==
    IF l # <<>> /\ l[Len(l)] = CR THEN SubSeq(l, 1, Len(l) - 1) ELSE l

NonEmptyLines(bytes) ==
    LET ls == CompleteLines(bytes, <<>>)
        stripped == [i \in 1 .. Len(ls) |-> WithoutCR(ls[i])]
    IN  SelectSeq(stripped, LAMBDA l : l # <<>>)

IsQuit(l) == parse_request(l).command = "QUIT"

UpToQuit(ls) ==
    IF \E i \in 1 .. Len(ls) : IsQuit(ls[i])
    THEN SubSeq(ls, 1, CHOOSE i \in 1 .. Len(ls) :
                          IsQuit(ls[i]) /\ \A j \in 1 .. i - 1 : ~IsQuit(ls[j]))
    ELSE ls

ToAnswer(fd) == UpToQuit(NonEmptyLines(Received(fd)))

(***************************************************************************)
(* C23.  Commands of one connection are executed strictly in arrival order *)
(* and the k-th response written to the socket is the response to the k-th *)
(* non-empty line received on it, whatever the way the bytes are split     *)
(* across reads and whatever other connections do.                         *)
(***************************************************************************)
C23_RepliesInArrivalOrder ==
    \A fd \in DOMAIN sock :
        /\ Len(sock[fd].out) <= Len(ToAnswer(fd))
        /\ \A k \in 1 .. Len(sock[fd].out) :
              LET o == sock[fd].out[k]
              IN  /\ o.line = ToAnswer(fd)[k]
                  /\ o.bytes =
                        serialize_response(
                            RespAt(o.pre, now, parse_request(o.line).command,
                                   parse_request(o.line).args))

\* SET k1 a arrived split inside the word, the other connection's SET ran
\* before the GET, which answered "b"
C23_Witness ==
    /\ Len(sock[1].out) = 2
    /\ sock[1].out[1].line = <<"SE", "T", SP, "k1", SP, "a">>
    /\ sock[1].out[1].bytes = "+OK" \o CRLF
    /\ sock[1].out[2].bytes = "$1" \o CRLF \o "b" \o CRLF

(***************************************************************************)
(* C24.  A command never terminates the worker: for every non-empty input  *)
(* line (unknown command, wrong arity, non-numeric integer argument, wrong *)
(* type, missing key) exactly one response is produced, and the connection *)
(* loop goes on to process the next line, unless the command is QUIT.      *)
(***************************************************************************)
C24_OneReplyPerLine ==
    \A fd \in DOMAIN sock :
        /\ th[fd].pc = "recv" =>
              Len(sock[fd].out) = Len(ToAnswer(fd)) /\ sock[fd].closes = 0
        /\ th[fd].pc = "lines" =>
              Len(sock[fd].out) <= Len(ToAnswer(fd)) /\ sock[fd].closes = 0
        /\ th[fd].pc = "done" =>
              /\ Len(sock[fd].out) = Len(ToAnswer(fd))
              /\ \/ sock[fd].wire = <<>>
                 \/ /\ sock[fd].out # <<>>
                    /\ IsQuit(sock[fd].out[Len(sock[fd].out)].line)

\* an unknown command, a line of blanks, a SADD and an LPUSH on the set
\* it made were each answered, and the worker waits for more
C24_Witness ==
    /\ th[1].pc = "recv"
    /\ sock[1].closes = 0
    /\ Len(sock[1].out) = 4
    /\ sock[1].out[1].bytes = "-ERR unknown command" \o CRLF
    /\ sock[1].out[2].bytes = "-ERR unknown command" \o CRLF
    /\ sock[1].out[4].bytes
          = "-WRONGTYPE Operation against a key holding the wrong kind of value"
                \o CRLF

(***************************************************************************)
(* C25.  QUIT ends the connection: the worker writes the "Goodbye" reply,  *)
(* closes the socket exactly once and exits, and no line that follows QUIT *)
(* on that connection (also one received in the same read) is executed or  *)
(* changes the keyspace.                                                   *)
(***************************************************************************)
Quitted(fd) ==
    \E k \in 1 .. Len(sock[fd].out) : IsQuit(sock[fd].out[k].line)

C25_QuitEndsConnection ==
    /\ [](\A fd \in DOMAIN sock :
            /\ sock[fd].closes <= 1
            /\ Quitted(fd) =>
                  LET n == Len(sock[fd].out)
                  IN  /\ IsQuit(sock[fd].out[n].line)
                      /\ \A k \in 1 .. n - 1 : ~IsQuit(sock[fd].out[k].line)
                      /\ sock[fd].out[n].bytes
                            = "$7" \o CRLF \o "Goodbye" \o CRLF
                      /\ sock[fd].closes = 1
                      /\ th[fd].pc = "done")
    /\ [][\A fd \in DOMAIN sock :
            Quitted(fd) =>
                /\ sock'[fd] = sock[fd]
                /\ th'[fd] = th[fd]
                /\ data_' # data_ =>
                      \E other \in DOMAIN sock :
                          other # fd /\ sock'[other].out # sock[other].out]_vars

\* QUIT and the SET after it arrived in one read: the socket is closed,
\* the SET is still in the buffer and k1 holds the list
C25_Witness ==
    /\ Quitted(1)
    /\ th[1].pc = "done"
    /\ sock[1].closes = 1
    /\ th[1].accumulated = <<"SET", SP, "k1", SP, "b", LF>>
    /\ data_["k1"].type = "LIST"

(***************************************************************************)
(* C26.  After stop() raises the shutdown flag, the acceptor loop of       *)
(* start() eventually exits: the listening socket is closed, a blocked     *)
(* accept returns an error, no connection is handed to a new worker after  *)
(* the flag was observed, and start() returns; a second stop() is a no-op. *)
(***************************************************************************)
FlagRaised == th.sig.pc \in {"close", "invalidate"}
StartReturned == th.main.pc = "returned"

\* a stop() that finds running_ false returns in this step
StopIsNoOp == th.sig.pc = "idle" /\ th'.sig.calls = th.sig.calls + 1

C26_StopEndsAcceptor ==
    /\ FlagRaised ~> (StartReturned /\ ~sock.open /\ ~running_)
    /\ [](/\ sock.closes <= 1
          /\ th.main.observed => th.main.pc \in {"check", "returned"}
          /\ (th.sig.pc = "idle" /\ th.sig.calls > 0 /\ ~running_
                /\ sock.closes = 1) =>
                    ~sock.open /\ listen_fd_ = INVALID_SOCKET)
    /\ [][/\ th.main.observed => sock'.handed = sock.handed
          /\ StopIsNoOp =>
                /\ running_' = running_
                /\ listen_fd_' = listen_fd_
                /\ sock' = sock]_vars

\* start() has returned after a stop that closed the socket under a
\* blocked accept, a connection was served before, and a second stop()
\* has returned too
C26_Witness ==
    /\ StartReturned
    /\ th.main.observed
    /\ th.sig.calls = 2
    /\ sock.closes = 1
    /\ sock.handed >= 1
    /\ listen_fd_ = INVALID_SOCKET

(***************************************************************************)
(* C27.  Arity is validated for every command of the table: a request      *)
(* whose argument count differs from the command's exact arity yields the  *)
(* invalid-args response and leaves the keyspace as it was.                *)
(***************************************************************************)
Arity(cmd) ==
    CASE cmd \in {"PING", "QUIT", "KEYS", "DBSIZE"} -> 0
      [] cmd \in {"GET", "DEL", "EXISTS", "TTL", "LPOP", "RPOP", "LLEN",
                  "SMEMBERS", "SCARD"} -> 1
      [] cmd \in {"SET", "EXPIRE", "LPUSH", "RPUSH", "SADD", "SREM",
                  "SISMEMBER"} -> 2
      [] cmd = "LRANGE" -> 3

WrongArity ==
    /\ pc = "send"
    /\ last.req.command \in CommandNames
    /\ Len(last.req.args) # Arity(last.req.command)

C27_ArityAlwaysValidated ==
    WrongArity => last.resp = Response("INVALID_ARGS") /\ data_ = last.pre

\* the commands that do validate their arity
C27_ArityValidatedWhereChecked ==
    WrongArity /\ last.req.command \notin {"PING", "QUIT", "KEYS", "DBSIZE"} =>
        last.resp = Response("INVALID_ARGS") /\ data_ = last.pre

(***************************************************************************)
(* C28.  The framing of a reply depends only on its response shape: KEYS,  *)
(* a successful LRANGE and a successful SMEMBERS are always encoded as an  *)
(* array "*<n>" followed by n bulk strings, for every n including 0 and 1, *)
(* and never as "+OK" or as a single bulk string.                          *)
(***************************************************************************)
ArrayFrame(items) ==
    "*" \o ToString(Len(items)) \o CRLF \o BulkStrings(items)

C28_ArrayRepliesAreArrays ==
    SentOneOf({"KEYS", "LRANGE", "SMEMBERS"}) /\ last.resp.status = "OK" =>
        serialize_response(last.resp) = ArrayFrame(last.resp.data)

\* replies of two or more elements are framed as arrays
C28_ArraysOfTwoOrMore ==
    /\ SentOneOf({"KEYS", "LRANGE", "SMEMBERS"})
    /\ last.resp.status = "OK"
    /\ Len(last.resp.data) >= 2
    => serialize_response(last.resp) = ArrayFrame(last.resp.data)

(***************************************************************************)
(* C29.  At the engine, restoring a snapshot reproduces the keyspace:      *)
(* restore_snapshot(get_snapshot(S)) yields the same keys with the same    *)
(* variant, payload and expiration instant as S, and every key that was    *)
(* present before the restore and is not in the snapshot is gone.          *)
(***************************************************************************)
JustRestored == snapshot.taken /\ snapshot.restored

C29_RestoreReproducesSnapshot == JustRestored => data_ = snapshot.S

(***************************************************************************)
(* C30.  Saving the keyspace to a snapshot file and loading that file into *)
(* an empty engine restores all variants: every non-expired String, List   *)
(* and Set key of the saved keyspace is present after the load with the    *)
(* same payload.                                                           *)
(***************************************************************************)
Loaded == file.written /\ file.loaded

\* the keys of the saved keyspace that were live at the save and still are
SavedLive(types) ==
    {k \in Keys : /\ snapshot.S[k].type \in types
                  /\ ~is_expired(snapshot.S[k], snapshot.at)
                  /\ ~is_expired(snapshot.S[k], file.at)}

SamePayload(v, w) ==
    v.type = w.type /\ v.str = w.str /\ v.list = w.list /\ v.set = w.set

C30_LoadRestoresAllVariants ==
    Loaded => \A k \in SavedLive(ValueType) :
                  SamePayload(data_[k], snapshot.S[k])

\* the String keys are restored
C30_LoadRestoresStrings ==
    Loaded => \A k \in SavedLive({"STRING"}) :
                  SamePayload(data_[k], snapshot.S[k])

(***************************************************************************)
(* C31.  snapshot() is a point-in-time copy: once get_snapshot() has       *)
(* returned, no later command on the engine changes the payload or the     *)
(* expiration instant of any entry of the returned snapshot.               *)
(***************************************************************************)
C31_SnapshotIsPointInTime ==
    snapshot.taken =>
        \A k \in Keys : snapshot.S[k] # Absent => snapshot.map[k] = snapshot.S[k]

(***************************************************************************)
(* C32.  List and set accessors treat an expired key as absent: when the   *)
(* list or set stored at k has an expiration instant in the past, LLEN and *)
(* SCARD return 0, LRANGE and SMEMBERS return no value, SISMEMBER returns  *)
(* false, and LPOP/RPOP return no value and no element of the list.        *)
(***************************************************************************)
ContainerAccessors ==
    {"LLEN", "SCARD", "LRANGE", "SMEMBERS", "SISMEMBER", "LPOP", "RPOP"}

OnExpiredContainer ==
    /\ SentOneOf(ContainerAccessors)
    /\ PreK.type \in {"LIST", "SET"}
    /\ ExpiredAt(PreK, last.at)

C32_AccessorsHideExpired ==
    OnExpiredContainer =>
        last.resp =
            IF last.req.command \in {"LLEN", "SCARD", "SISMEMBER"}
            THEN Response1("OK", "0")
            ELSE Response("NOT_FOUND")

(***************************************************************************)
(* C33.  LPUSH, RPUSH and SADD on an expired key behave as on a missing    *)
(* key: whatever variant the expired Value had, the command succeeds       *)
(* (never WRONGTYPE), and afterwards k holds a container with only the new *)
(* element and no expiry, so the new element is visible to LRANGE /        *)
(* SISMEMBER and EXISTS(k) returns true.                                   *)
(***************************************************************************)
CreateOnExpired ==
    /\ SentOneOf({"LPUSH", "RPUSH", "SADD"})
    /\ ExpiredAt(PreK, last.at)

C33_CreateOnExpiredAsOnMissing ==
    CreateOnExpired =>
        LET missing == [last.pre EXCEPT ![K] = Absent]
            r == execute_command(missing, last.at, last.req, AnyKOrd, AnyVOrd,
                                 <<>>)
        IN  /\ last.resp = r.resp
            /\ last.resp.status = "OK"
            /\ data_ = r.d
            /\ data_[K].expires_at = -1
            /\ RespAt(data_, last.at, "EXISTS", <<K>>) = Response1("OK", "1")

(***************************************************************************)
(* C34.  Expiry is permanent until a creating command: once the Value at k *)
(* is expired, GET(k) and EXISTS(k) report k as absent at every later      *)
(* instant until a SET, LPUSH, RPUSH or SADD on k; in particular no EXPIRE *)
(* issued on k after its expiration makes the old value readable again.    *)
(***************************************************************************)
NonCreating ==
    {"GET", "DEL", "EXISTS", "EXPIRE", "TTL", "LPOP", "RPOP", "LRANGE", "LLEN",
     "SREM", "SISMEMBER", "SMEMBERS", "SCARD"}

AbsentFrom(d, t, k) ==
    \A u \in t .. MaxTime :
        /\ RespAt(d, u, "GET", <<k>>) = Response("NOT_FOUND")
        /\ RespAt(d, u, "EXISTS", <<k>>) = Response1("OK", "0")

C34_ExpiryIsPermanent ==
    (SentOneOf(NonCreating) /\ ExpiredAt(PreK, last.at)) =>
        AbsentFrom(data_, last.at, K)

\* the commands other than EXPIRE leave an expired key absent
C34_PermanentWithoutExpire ==
    (SentOneOf(NonCreating \ {"EXPIRE"}) /\ ExpiredAt(PreK, last.at)) =>
        AbsentFrom(data_, last.at, K)

(***************************************************************************)
(* C35.  A successful EXPIRE always leaves the key with an expiry: for     *)
(* every integer s accepted by the EXPIRE command and every clock value,   *)
(* the expiration instant stored by expire(k, s) is never the "no expiry"  *)
(* sentinel -1, so TTL never answers -1 right after a successful EXPIRE.   *)
(***************************************************************************)
ExpireSucceeded == Sent("EXPIRE") /\ last.resp = Response1("OK", "1")

C35_ExpireLeavesAnExpiry ==
    ExpireSucceeded =>
        /\ data_[K].expires_at # -1
        /\ RespAt(data_, last.at, "TTL", <<K>>) # Response1("OK", "-1")

\* the sentinel is stored only when now + s = -1
C35_SentinelOnlyAtMinusOne ==
    (ExpireSucceeded /\ last.at + stoi(A2).val # -1) =>
        data_[K].expires_at # -1

(***************************************************************************)
(* C36.  lrange never reads outside the list: for every list length        *)
(* n >= 0, including a list emptied by LPOP/RPOP whose key is still        *)
(* present, and every pair (start, stop), the positions read lie in        *)
(* [0, n-1], and on an empty list the result is the empty array.           *)
(***************************************************************************)
LrangeOnList == Sent("LRANGE") /\ PreK.type = "LIST"

C36_LrangeReadsInsideList ==
    LrangeOnList =>
        /\ ~lrange(last.pre, K, stoi(A2).val, stoi(A3).val).past_end
        /\ PreK.list = <<>> => last.resp = ResponseV("OK", <<>>)

\* on a list that has an element every read is inside it
C36_InsideWhenNonEmpty ==
    (LrangeOnList /\ PreK.list # <<>>) =>
        ~lrange(last.pre, K, stoi(A2).val, stoi(A3).val).past_end

(***************************************************************************)
(* C37.  Emptying a container does not remove its key: after the LPOP/RPOP *)
(* that removes the last element of a list, or the SREM that removes the   *)
(* last member of a set, the key is still in the keyspace (EXISTS returns  *)
(* true, DBSIZE still counts it, KEYS lists it) with its variant and       *)
(* expiry unchanged, so an LPUSH on a key emptied as a set still fails on  *)
(* type.  EXISTS and KEYS are taken while the key has not expired.         *)
(***************************************************************************)
PoppedLast ==
    /\ SentOneOf({"LPOP", "RPOP"})
    /\ PreK.type = "LIST"
    /\ Len(PreK.list) = 1

RemovedLastMember ==
    /\ Sent("SREM")
    /\ PreK.type = "SET"
    /\ PreK.set = {A2}

KeyStillThere ==
    /\ data_[K].type = PreK.type
    /\ data_[K].expires_at = PreK.expires_at
    /\ dbsize(data_) = dbsize(last.pre)
    /\ RespAt(data_, last.at, "DBSIZE", <<>>)
            = RespAt(last.pre, last.at, "DBSIZE", <<>>)
    /\ ~ExpiredAt(PreK, last.at) =>
            /\ RespAt(data_, last.at, "EXISTS", <<K>>) = Response1("OK", "1")
            /\ \A o \in KeyOrders : K \in Elems(keys(data_, last.at, o))

C37_EmptyingKeepsKey ==
    /\ PoppedLast =>
            /\ last.resp = Response1("OK", PreK.list[1])
            /\ data_ = [last.pre EXCEPT ![K].list = <<>>]
            /\ KeyStillThere
    /\ RemovedLastMember =>
            /\ last.resp = Response1("OK", "1")
            /\ data_ = [last.pre EXCEPT ![K].set = {}]
            /\ KeyStillThere
            /\ \A v \in Vals :
                    RespAt(data_, last.at, "LPUSH", <<K, v>>)
                        = Response("WRONG_TYPE")

\* the last member of a set with a pending expiry was removed while the
\* other key is present: the empty set is still there
C37_Witness ==
    /\ RemovedLastMember
    /\ PreK.expires_at >= last.at
    /\ OtherKeyHeld
    /\ data_[K].type = "SET"
    /\ data_[K].set = {}
    /\ dbsize(data_) = 2

(***************************************************************************)
(* C38.  A Value's payload is read or written only while the keyspace lock *)
(* is held: in every interleaving, including the snapshot save that runs   *)
(* while detached connection workers are still executing commands, no      *)
(* thread reads a list, set or string payload or an expiration instant     *)
(* while another thread is modifying it.                                   *)
(***************************************************************************)
ReadingValue(k) ==
    th[SaveThread].pc = "reading" /\ th[SaveThread].call.key = k

C38_ValuesAccessedUnderLock ==
    \A k \in Keys : ~(ReadingValue(k) /\ WritingValue(k))

\* the map itself is copied under the shared lock
C38_MapCopiedUnderLock ==
    (th[SaveThread].pc = "cs") =>
        SaveThread \in mutex_.readers /\ mutex_.writer = 0

(***************************************************************************)
(* C39.  The snapshot file is self-consistent: the entry count written in  *)
(* the header by save_snapshot equals the number of entries written after  *)
(* it, also when the keyspace contains expired entries that are skipped,   *)
(* so that load_snapshot reads exactly the entries that were written.      *)
(***************************************************************************)
C39_CountMatchesEntries ==
    file.written => file.count = Len(file.entries)

\* the header never counts fewer entries than the file holds
C39_CountCoversEntries ==
    file.written => file.count >= Len(file.entries)

(***************************************************************************)
(* C40.  Loading a snapshot never extends a key's life: a String entry     *)
(* whose expiration instant is at or before the load time is not           *)
(* observable after load_snapshot, and an entry with a future expiration   *)
(* instant still expires at that instant; no entry that had an expiry in   *)
(* the file is restored as a key without expiry.                           *)
(***************************************************************************)
StringsWithExpiry ==
    {e \in Elems(file.entries) :
        e.value.type = "STRING" /\ e.value.expires_at # -1}

C40_LoadKeepsExpiry ==
    Loaded =>
        \A e \in StringsWithExpiry :
            \/ data_[e.key] = Absent
            \/ data_[e.key].expires_at = e.value.expires_at

\* an entry whose expiration instant is after the load time keeps it
C40_FutureExpiryKept ==
    Loaded =>
        \A e \in StringsWithExpiry :
            e.value.expires_at > file.at =>
                data_[e.key].expires_at = e.value.expires_at

=============================================================================
